---- MODULE Spec2Model ----
(***************************************************************************)
(* Capacity, deadline, package and reminder engine of the personal-trainer *)
(* booking service: the Mongoose models (Session, Booking, User), the API  *)
(* routes that create and remove sessions and bookings and maintain the    *)
(* clients' packages, and the reminder scan.  Time is counted in seconds.  *)
(* Every request handler is a process that moves from one await to the     *)
(* next; the store (sessions, bookings, users) is shared.                  *)
(***************************************************************************)
EXTENDS Integers, Sequences, FiniteSets, TLC

\* ------------------------------------------------------------------ bounds
MaxProcs == 2
MaxSessions == 2
MaxBookings == 2
MaxActive == 9
MaxReminders == 2
MaxFirings == 6
MaxElapsed == 6

\* ------------------------------------------------------- program constants
MinGroupSize == 1
MaxGroupSize == 4
DefaultPackageDuration == 90
AddPackageSessions == 8
AddPackageDays == 90

MINUTE == 60
DefaultMaxRetries == 3
HOUR == 60 * MINUTE
DAY == 24 * HOUR

\* ------------------------------------------------------------------ inputs
Day(n) == n * DAY
T0 == Day(8)
Clients == {"c1", "c2"}
Admin == "admin"
Trainers == {"t1", "t2"}
\* the server's offset from UTC, fixed for a run of the program
TZOffsets == {0, 2 * HOUR}
\* ISO dates an administrator submits; new Date(date) reads them as UTC
DateInputs == {Day(10)}
TimeInputs == {<<18, 0>>}

\* The requests a specification draws from: the clients that book, the users
\* that ask for a cancellation or are named in an add-package, the group
\* sizes and package flags of booking requests, and the trainers and
\* capacities of new sessions.
Load(cs, rs, gs, fs, ts, caps) ==
  [clients |-> cs, requesters |-> rs, sizes |-> gs, flags |-> fs,
   trainers |-> ts, capacities |-> caps]

Procs == 1 .. MaxProcs
SessionIds == 1 .. MaxSessions
BookingIds == 1 .. MaxBookings

VARIABLES
  now,            \* the wall clock, new Date() / Date.now()
  tz,             \* the server's offset from UTC
  sessions,       \* the Session collection: id -> document
  bookings,       \* the Booking collection: id -> document
  users,          \* the client documents' package fields
  nextSid,        \* the next session _id
  nextBid,        \* the next booking _id
  req,            \* each request slot: the handler it runs and its locals
  res,            \* each request slot: the response of its last request
  cancelNotified, \* bookings for which a cancellation notification was dispatched
  reminded        \* booking _id -> the reminder emails delivered for it

vars == <<now, tz, sessions, bookings, users, nextSid, nextBid, req, res, cancelNotified, reminded>>

Idle == [op |-> "idle"]
Null == <<>>

\* ----------------------------------------------------------------- dates
\* the instant of local midnight of the local calendar day that holds t
LocalDayStart(t, off) == ((t + off) \div DAY) * DAY - off
\* Date.prototype.setHours(h, m, 0, 0)
setHours(t, hm, off) == LocalDayStart(t, off) + hm[1] * HOUR + hm[2] * MINUTE
\* a comparison in which a missing date is later than every instant
DateLess_MissingIsLate(t, d) == d = Null \/ t < d[1]

\* new Date() < d, where d may be null (null compares as 0)
DateLess(t, d) == d # Null /\ t < d[1]

\* --------------------------------------------------------------- Session
confirmedOf(sid) == {b \in DOMAIN bookings :
                       bookings[b].session = sid /\ bookings[b].status = "confirmed"}

RECURSIVE SumGroupSize(_)
SumGroupSize(bs) ==
  IF bs = {} THEN 0
  ELSE LET b == CHOOSE x \in bs : TRUE
       IN bookings[b].groupSize + SumGroupSize(bs \ {b})

getAvailableSpots(sid, maxCapacity) == maxCapacity - SumGroupSize(confirmedOf(sid))

\* a check that only asks whether any spot is left
hasCapacity_AnySpot(sid, maxCapacity, groupSize) ==
  getAvailableSpots(sid, maxCapacity) > 0

\* a check that refuses the request that exactly fills the session
hasCapacity_Strict(sid, maxCapacity, groupSize) ==
  getAvailableSpots(sid, maxCapacity) > groupSize

hasCapacity(sid, maxCapacity, groupSize) ==
  getAvailableSpots(sid, maxCapacity) >= groupSize

\* --------------------------------------------------------------- Booking
\* a comparison that still allows the cancellation at the deadline itself
isCancellable_AtDeadline(b, t) ==
  b.cancellationDeadline # Null /\ t <= b.cancellationDeadline[1]

isCancellable(b, t) == DateLess(t, b.cancellationDeadline)

\* the time of day set in UTC instead of the server's local time
calculateCancellationDeadline_UTC(sid) ==
  IF sid \in DOMAIN sessions
  THEN <<setHours(sessions[sid].date, sessions[sid].time, 0) - 24 * 60 * 60>>
  ELSE Null

calculateCancellationDeadline(sid) ==
  IF sid \in DOMAIN sessions
  THEN <<setHours(sessions[sid].date, sessions[sid].time, tz) - 24 * 60 * 60>>
  ELSE Null

\* pre('save') of a new booking: the derived fields
preSaveNew(b) ==
  LET d == calculateCancellationDeadline(b.session)
  IN [b EXCEPT !.cancellationDeadline = d,
               !.canCancel = IF d = Null THEN Null ELSE <<now < d[1]>>]

\* ------------------------------------------------------------------ User
\* a comparison that still counts the package at the instant it expires
hasActivePackage_AtExpiry(u, t) ==
  IF ~(u.activeSessions > 0) THEN <<FALSE>>
  ELSE IF u.packageExpiry = Null THEN Null
  ELSE <<t <= u.packageExpiry[1]>>

\* activeSessions > 0 && packageExpiry && new Date() < packageExpiry: the
\* value of the && chain, which is the unset expiry itself when the chain
\* stops there
hasActivePackage(u, t) ==
  IF ~(u.activeSessions > 0) THEN <<FALSE>>
  ELSE IF u.packageExpiry = Null THEN Null
  ELSE <<t < u.packageExpiry[1]>>

\* ----------------------------------------------------------- the handlers
Respond(p, r) == res' = [res EXCEPT ![p] = r]
Goto(p, l) == req' = [req EXCEPT ![p] = l]
InFlight(op) == Cardinality({q \in Procs : req[q].op = op})

\* POST /booking up to the first await: the validation and Session.findById
BookFind(p, c, sid, g, pkg) ==
  /\ req[p] = Idle
  /\ IF g < MinGroupSize \/ g > MaxGroupSize
     THEN Respond(p, "err_size") /\ UNCHANGED req
     ELSE IF sid \notin DOMAIN sessions \/ ~sessions[sid].isActive
     THEN Respond(p, "err_session") /\ UNCHANGED req
     ELSE /\ nextBid + InFlight("book") <= MaxBookings
          /\ Respond(p, "none")
          /\ Goto(p, [op |-> "book", pc |-> "capacity", client |-> c,
                      session |-> sid, maxCapacity |-> sessions[sid].maxCapacity,
                      packageDuration |-> sessions[sid].packageDuration,
                      groupSize |-> g, isPackageBooking |-> pkg])
  /\ UNCHANGED <<now, tz, sessions, bookings, users, nextSid, nextBid, cancelNotified, reminded>>

\* the package update applied before the capacity is known
BookCapacity_PackageFirst(p) ==
  /\ req[p].op = "book" /\ req[p].pc = "capacity"
  /\ users' = IF req[p].isPackageBooking
              THEN [users EXCEPT ![req[p].client].activeSessions = @ + 1]
              ELSE users
  /\ IF hasCapacity(req[p].session, req[p].maxCapacity, req[p].groupSize)
     THEN Goto(p, [req[p] EXCEPT !.pc = "save"]) /\ UNCHANGED res
     ELSE Goto(p, Idle) /\ Respond(p, "err_capacity")
  /\ UNCHANGED <<now, tz, sessions, bookings, nextSid, nextBid, cancelNotified, reminded>>

\* await session.hasCapacity(groupSize)
BookCapacity(p) ==
  /\ req[p].op = "book" /\ req[p].pc = "capacity"
  /\ IF hasCapacity(req[p].session, req[p].maxCapacity, req[p].groupSize)
     THEN Goto(p, [req[p] EXCEPT !.pc = "save"]) /\ UNCHANGED res
     ELSE Goto(p, Idle) /\ Respond(p, "err_capacity")
  /\ UNCHANGED <<now, tz, sessions, bookings, users, nextSid, nextBid, cancelNotified, reminded>>

NewBooking(r) ==
  [session |-> r.session, client |-> r.client, groupSize |-> r.groupSize,
   status |-> "confirmed", notes |-> "", reminderSent |-> "false",
   canCancel |-> <<TRUE>>, cancellationDeadline |-> Null,
   isPackageBooking |-> r.isPackageBooking]

\* await booking.save(): the pre-save hook and the insert
BookSave(p) ==
  /\ req[p].op = "book" /\ req[p].pc = "save"
  /\ bookings' = (nextBid :> preSaveNew(NewBooking(req[p]))) @@ bookings
  /\ nextBid' = nextBid + 1
  /\ Goto(p, [req[p] EXCEPT !.pc = IF req[p].isPackageBooking THEN "package" ELSE "mail"])
  /\ UNCHANGED <<now, tz, sessions, users, nextSid, res, cancelNotified, reminded>>

\* a package booking that uses a session up instead of adding one
OnPackageBooking_Consume(u, days) ==
  [activeSessions |-> u.activeSessions - 1, packageExpiry |-> <<now + days * DAY>>]

OnPackageBooking(u, days) ==
  [activeSessions |-> u.activeSessions + 1, packageExpiry |-> <<now + days * DAY>>]

\* await User.findByIdAndUpdate(req.user.id, {$inc, $set})
BookPackage(p) ==
  /\ req[p].op = "book" /\ req[p].pc = "package"
  /\ users' = [users EXCEPT ![req[p].client] = OnPackageBooking(@, req[p].packageDuration)]
  /\ Goto(p, [req[p] EXCEPT !.pc = "mail"])
  /\ UNCHANGED <<now, tz, sessions, bookings, nextSid, nextBid, res, cancelNotified, reminded>>

\* the confirmation email (its outcome is only logged) and res.json
BookMail(p) ==
  /\ req[p].op = "book" /\ req[p].pc = "mail"
  /\ Goto(p, Idle) /\ Respond(p, "ok")
  /\ UNCHANGED <<now, tz, sessions, bookings, users, nextSid, nextBid, cancelNotified, reminded>>

\* the confirmation cannot be sent: sendBookingConfirmation returns a
\* failure or the try around it catches what was thrown; either is logged
BookMailFails(p) ==
  /\ req[p].op = "book" /\ req[p].pc = "mail"
  /\ Goto(p, [req[p] EXCEPT !.pc = "respond"])
  /\ UNCHANGED <<now, tz, sessions, bookings, users, nextSid, nextBid, res, cancelNotified, reminded>>

\* res.json({success: true, booking}) after the catch
BookRespond(p) ==
  /\ req[p].op = "book" /\ req[p].pc = "respond"
  /\ Goto(p, Idle) /\ Respond(p, "ok")
  /\ UNCHANGED <<now, tz, sessions, bookings, users, nextSid, nextBid, cancelNotified, reminded>>

\* the package decrement applied before the deadline is looked at
CancelFind_DecrementFirst(p, r, bid) ==
  /\ req[p] = Idle
  /\ bid \in DOMAIN bookings /\ (r = Admin \/ bookings[bid].client = r)
  /\ users' = IF bookings[bid].isPackageBooking
              THEN [users EXCEPT ![bookings[bid].client].activeSessions = @ - 1]
              ELSE users
  /\ IF r # Admin /\ ~isCancellable(bookings[bid], now)
     THEN Respond(p, "err_window") /\ UNCHANGED req
     ELSE /\ Respond(p, "none")
          /\ Goto(p, [op |-> "cancel", booking |-> bid, requester |-> r,
                      client |-> bookings[bid].client, pc |-> "mail"])
  /\ UNCHANGED <<now, tz, sessions, bookings, nextSid, nextBid, cancelNotified, reminded>>

\* DELETE /booking/:id up to the first await after the checks
CancelFind(p, r, bid) ==
  /\ req[p] = Idle
  /\ IF bid \notin DOMAIN bookings
     THEN Respond(p, "err_notfound") /\ UNCHANGED req
     ELSE IF r # Admin /\ bookings[bid].client # r
     THEN Respond(p, "err_auth") /\ UNCHANGED req
     ELSE IF r # Admin /\ ~isCancellable(bookings[bid], now)
     THEN Respond(p, "err_window") /\ UNCHANGED req
     ELSE /\ Respond(p, "none")
          /\ Goto(p, [op |-> "cancel", booking |-> bid, requester |-> r,
                      client |-> bookings[bid].client,
                      pc |-> IF bookings[bid].isPackageBooking
                             THEN "package" ELSE "mail"])
  /\ UNCHANGED <<now, tz, sessions, bookings, users, nextSid, nextBid, cancelNotified, reminded>>

OnPackageCancellation(u) == [u EXCEPT !.activeSessions = @ - 1]

\* await User.findByIdAndUpdate(booking.client._id, {$inc: {activeSessions: -1}})
CancelPackage(p) ==
  /\ req[p].op = "cancel" /\ req[p].pc = "package"
  /\ users' = [users EXCEPT ![req[p].client] = OnPackageCancellation(@)]
  /\ Goto(p, [req[p] EXCEPT !.pc = "mail"])
  /\ UNCHANGED <<now, tz, sessions, bookings, nextSid, nextBid, res, cancelNotified, reminded>>

\* await emailService.sendCancellationNotification(...)
CancelMail(p) ==
  /\ req[p].op = "cancel" /\ req[p].pc = "mail"
  /\ cancelNotified' = cancelNotified \cup {req[p].booking}
  /\ Goto(p, [req[p] EXCEPT !.pc = "delete"])
  /\ UNCHANGED <<now, tz, sessions, bookings, users, nextSid, nextBid, res, reminded>>

\* a request that ends with an error when the notification cannot be sent
CancelMailFails_Abort(p) ==
  /\ req[p].op = "cancel" /\ req[p].pc = "mail"
  /\ Goto(p, Idle) /\ Respond(p, "err_mail")
  /\ UNCHANGED <<now, tz, sessions, bookings, users, nextSid, nextBid, cancelNotified, reminded>>

\* the notification cannot be sent: sendCancellationNotification returns a
\* failure or the try around it catches what was thrown
CancelMailFails(p) ==
  /\ req[p].op = "cancel" /\ req[p].pc = "mail"
  /\ Goto(p, [req[p] EXCEPT !.pc = "delete"])
  /\ UNCHANGED <<now, tz, sessions, bookings, users, nextSid, nextBid, res, cancelNotified, reminded>>

Without(f, ks) == [k \in DOMAIN f \ ks |-> f[k]]

\* a cancellation that keeps the document and marks it cancelled
CancelDelete_Soft(p) ==
  /\ req[p].op = "cancel" /\ req[p].pc = "delete"
  /\ bookings' = IF req[p].booking \in DOMAIN bookings
                 THEN [bookings EXCEPT ![req[p].booking].status = "cancelled"]
                 ELSE bookings
  /\ Goto(p, Idle) /\ Respond(p, "ok")
  /\ UNCHANGED <<now, tz, sessions, users, nextSid, nextBid, cancelNotified, reminded>>

\* await Booking.findByIdAndDelete(req.params.id) and res.json
CancelDelete(p) ==
  /\ req[p].op = "cancel" /\ req[p].pc = "delete"
  /\ bookings' = Without(bookings, {req[p].booking})
  /\ Goto(p, Idle) /\ Respond(p, "ok")
  /\ UNCHANGED <<now, tz, sessions, users, nextSid, nextBid, cancelNotified, reminded>>

\* POST /session: validation, the trainer lookup and Session.findOne
SameSlot(sid, tr, d, t) ==
  sessions[sid].trainer = tr /\ sessions[sid].date = d /\ sessions[sid].time = t

CreateFind(p, d, t, cap, tr) ==
  /\ req[p] = Idle
  /\ IF \E sid \in DOMAIN sessions : SameSlot(sid, tr, d, t)
     THEN Respond(p, "err_dup") /\ UNCHANGED req
     ELSE /\ nextSid + InFlight("create") <= MaxSessions
          /\ Respond(p, "none")
          /\ Goto(p, [op |-> "create", pc |-> "save", date |-> d, time |-> t,
                      maxCapacity |-> cap, trainer |-> tr])
  /\ UNCHANGED <<now, tz, sessions, bookings, users, nextSid, nextBid, cancelNotified, reminded>>

\* a session whose package runs for a month instead of the route's 90 days
NewSession_ShortPackage(r) ==
  [date |-> r.date, time |-> r.time, maxCapacity |-> r.maxCapacity,
   trainer |-> r.trainer, isActive |-> TRUE,
   packageDuration |-> 30]

NewSession(r) ==
  [date |-> r.date, time |-> r.time, maxCapacity |-> r.maxCapacity,
   trainer |-> r.trainer, isActive |-> TRUE,
   packageDuration |-> DefaultPackageDuration]

\* a save into a collection without the unique index
CreateSave_NoIndex(p) ==
  /\ req[p].op = "create" /\ req[p].pc = "save"
  /\ sessions' = (nextSid :> NewSession(req[p])) @@ sessions
  /\ nextSid' = nextSid + 1
  /\ Respond(p, "ok")
  /\ Goto(p, Idle)
  /\ UNCHANGED <<now, tz, bookings, users, nextBid, cancelNotified, reminded>>

\* await session.save(): the unique index on (trainer, date, time) decides
CreateSave(p) ==
  /\ req[p].op = "create" /\ req[p].pc = "save"
  /\ IF \E sid \in DOMAIN sessions :
          SameSlot(sid, req[p].trainer, req[p].date, req[p].time)
     THEN Respond(p, "err_dup") /\ UNCHANGED <<sessions, nextSid>>
     ELSE /\ sessions' = (nextSid :> NewSession(req[p])) @@ sessions
          /\ nextSid' = nextSid + 1
          /\ Respond(p, "ok")
  /\ Goto(p, Idle)
  /\ UNCHANGED <<now, tz, bookings, users, nextBid, cancelNotified, reminded>>

\* DELETE /session/:id: Booking.find of the confirmed bookings
DeleteFind(p, sid) ==
  /\ req[p] = Idle
  /\ Goto(p, [op |-> "delete", session |-> sid, found |-> confirmedOf(sid),
           pc |-> IF confirmedOf(sid) = {} THEN "bookings" ELSE "mail"])
  /\ Respond(p, "none")
  /\ UNCHANGED <<now, tz, sessions, bookings, users, nextSid, nextBid, cancelNotified, reminded>>

\* the loop of sendCancellationNotification over the bookings found
DeleteMail(p) ==
  /\ req[p].op = "delete" /\ req[p].pc = "mail"
  /\ cancelNotified' = cancelNotified \cup req[p].found
  /\ Goto(p, [req[p] EXCEPT !.pc = "bookings"])
  /\ UNCHANGED <<now, tz, sessions, bookings, users, nextSid, nextBid, res, reminded>>

\* a request that ends with an error when a notification cannot be sent
DeleteMailFails_Abort(p) ==
  /\ req[p].op = "delete" /\ req[p].pc = "mail"
  /\ Goto(p, Idle) /\ Respond(p, "err_mail")
  /\ UNCHANGED <<now, tz, sessions, bookings, users, nextSid, nextBid, cancelNotified, reminded>>

\* the loop in which some notifications cannot be sent: each failure is
\* logged by the try around the send and the loop goes on
DeleteMailFails(p) ==
  /\ req[p].op = "delete" /\ req[p].pc = "mail"
  /\ \E sent \in SUBSET req[p].found :
       /\ sent # req[p].found
       /\ cancelNotified' = cancelNotified \cup sent
  /\ Goto(p, [req[p] EXCEPT !.pc = "bookings"])
  /\ UNCHANGED <<now, tz, sessions, bookings, users, nextSid, nextBid, res, reminded>>

\* a deletion that gives the package session of every removed package
\* booking back to its client
DeleteBookings_Refund(p) ==
  /\ req[p].op = "delete" /\ req[p].pc = "bookings"
  /\ bookings' = Without(bookings, {b \in DOMAIN bookings :
                                      bookings[b].session = req[p].session})
  /\ users' = [c \in DOMAIN users |->
                 [users[c] EXCEPT !.activeSessions =
                    @ - Cardinality({b \in DOMAIN bookings :
                                       /\ bookings[b].session = req[p].session
                                       /\ bookings[b].client = c
                                       /\ bookings[b].isPackageBooking})]]
  /\ Goto(p, [req[p] EXCEPT !.pc = "session"])
  /\ UNCHANGED <<now, tz, sessions, nextSid, nextBid, res, cancelNotified, reminded>>

\* await Booking.deleteMany({ session })
DeleteBookings(p) ==
  /\ req[p].op = "delete" /\ req[p].pc = "bookings"
  /\ bookings' = Without(bookings, {b \in DOMAIN bookings :
                                      bookings[b].session = req[p].session})
  /\ Goto(p, [req[p] EXCEPT !.pc = "session"])
  /\ UNCHANGED <<now, tz, sessions, users, nextSid, nextBid, res, cancelNotified, reminded>>

\* await Session.findByIdAndDelete(id) and res.json
DeleteSessionDoc(p) ==
  /\ req[p].op = "delete" /\ req[p].pc = "session"
  /\ sessions' = Without(sessions, {req[p].session})
  /\ Goto(p, Idle) /\ Respond(p, "ok")
  /\ UNCHANGED <<now, tz, bookings, users, nextSid, nextBid, cancelNotified, reminded>>

\* POST /client/:id/add-package: User.findById and the role check
AddPackageFind(p, u) ==
  /\ req[p] = Idle
  /\ IF u \notin Clients
     THEN Respond(p, "err_notfound") /\ UNCHANGED req
     ELSE /\ users[u].activeSessions + AddPackageSessions <= MaxActive
          /\ Respond(p, "none")
          /\ Goto(p, [op |-> "addPackage", pc |-> "update", client |-> u])
  /\ UNCHANGED <<now, tz, sessions, bookings, users, nextSid, nextBid, cancelNotified, reminded>>

\* an add-package that leaves an expiry that is already set as it is
AdminAddPackage_KeepExpiry(u) ==
  [activeSessions |-> u.activeSessions + AddPackageSessions,
   packageExpiry |-> IF u.packageExpiry # Null THEN u.packageExpiry
                     ELSE <<now + AddPackageDays * DAY>>]

\* an add-package that writes the counter instead of incrementing it
AdminAddPackage_Set(u) ==
  [activeSessions |-> AddPackageSessions,
   packageExpiry |-> <<now + AddPackageDays * DAY>>]

AdminAddPackage(u) ==
  [activeSessions |-> u.activeSessions + AddPackageSessions,
   packageExpiry |-> <<now + AddPackageDays * DAY>>]

\* await User.findByIdAndUpdate(id, {$inc: 8, $set: expiry})
AddPackageUpdate(p) ==
  /\ req[p].op = "addPackage" /\ req[p].pc = "update"
  /\ users' = [users EXCEPT ![req[p].client] = AdminAddPackage(@)]
  /\ Goto(p, Idle) /\ Respond(p, "ok")
  /\ UNCHANGED <<now, tz, sessions, bookings, nextSid, nextBid, cancelNotified, reminded>>

\* a reset that clears the counter and keeps the expiry
AdminResetPackage_KeepExpiry(u) == [u EXCEPT !.activeSessions = 0]

\* a reset that takes one session off the counter
AdminResetPackage_Decrement(u) ==
  [activeSessions |-> u.activeSessions - 1, packageExpiry |-> Null]

AdminResetPackage(u) == [activeSessions |-> 0, packageExpiry |-> Null]

\* POST /client/:id/reset-package: one findByIdAndUpdate
ResetPackage(p, u) ==
  /\ req[p] = Idle
  /\ users' = [users EXCEPT ![u] = AdminResetPackage(@)]
  /\ Respond(p, "ok")
  /\ UNCHANGED <<now, tz, sessions, bookings, nextSid, nextBid, req, cancelNotified, reminded>>

\* GET /api/my-package: User.findById and the hasActivePackage of the answer
MyPackage(p, c) ==
  /\ req[p] = Idle
  /\ LET h == hasActivePackage(users[c], now)
     IN Respond(p, IF h = Null THEN "package_unset"
                   ELSE IF h[1] THEN "package_active" ELSE "package_inactive")
  /\ UNCHANGED <<now, tz, sessions, bookings, users, nextSid, nextBid, req, cancelNotified, reminded>>

NoteInputs == {"late"}

\* PUT /booking/:id/notes: one findByIdAndUpdate
UpdateNotes(p, bid, n) ==
  /\ req[p] = Idle
  /\ IF bid \in DOMAIN bookings
     THEN /\ bookings' = [bookings EXCEPT ![bid].notes = n]
          /\ Respond(p, "ok")
     ELSE Respond(p, "err_notfound") /\ UNCHANGED bookings
  /\ UNCHANGED <<now, tz, sessions, users, nextSid, nextBid, req, cancelNotified, reminded>>

\* ------------------------------------------------------------- sendEmail
\* what transporter.sendMail answers to an attempt: the message is taken, or
\* one of two errors
SendErrors == {"refused", "timeout"}
SendAnswers == {"sent"} \cup SendErrors

\* a loop that gives up one attempt early
retriesLeft_Early(attempt, maxRetries) == attempt + 1 < maxRetries

\* attempt < maxRetries: another attempt follows this failed one
retriesLeft(attempt, maxRetries) == attempt < maxRetries

\* a wait that starts at one second
backoffDelay_Halved(attempt) == 2 ^ (attempt - 1)

\* Math.pow(2, attempt) * 1000 milliseconds, in seconds
backoffDelay(attempt) == 2 ^ attempt

\* sendEmail(to, template) is called with maxRetries at its default; answers
\* are what the transport will answer to the successive attempts.  The
\* address is the email of a stored user, which the User schema validates,
\* so the isEmail check at the top passes.
SendEmailCall(p, answers) ==
  /\ req[p] = Idle
  /\ now < T0 + MaxElapsed
  /\ Goto(p, [op |-> "sendEmail", pc |-> "attempt", attempt |-> 1,
              maxRetries |-> DefaultMaxRetries, answers |-> answers, wakeAt |-> now])
  /\ Respond(p, "none")
  /\ UNCHANGED <<now, tz, sessions, bookings, users, nextSid, nextBid, cancelNotified, reminded>>

\* one turn of the loop: await transporter.sendMail; a success returns
\* {success: true, messageId}; a failure starts the wait when an attempt is
\* left and otherwise returns {success: false, error: lastError.message}
SendEmailAttempt(p) ==
  /\ req[p].op = "sendEmail" /\ req[p].pc = "attempt"
  /\ LET answer == req[p].answers[req[p].attempt]
     IN IF answer = "sent"
        THEN Goto(p, Idle) /\ Respond(p, "sent")
        ELSE IF retriesLeft(req[p].attempt, req[p].maxRetries)
        THEN /\ Goto(p, [req[p] EXCEPT !.pc = "backoff",
                                       !.wakeAt = now + backoffDelay(req[p].attempt)])
             /\ UNCHANGED res
        ELSE Goto(p, Idle) /\ Respond(p, answer)
  /\ UNCHANGED <<now, tz, sessions, bookings, users, nextSid, nextBid, cancelNotified, reminded>>

\* the setTimeout of the wait has run out: attempt++ and the next turn
SendEmailResume(p) ==
  /\ req[p].op = "sendEmail" /\ req[p].pc = "backoff"
  /\ now >= req[p].wakeAt
  /\ Goto(p, [req[p] EXCEPT !.pc = "attempt", !.attempt = @ + 1])
  /\ UNCHANGED <<now, tz, sessions, bookings, users, nextSid, nextBid, res, cancelNotified, reminded>>

\* a second passes while a call waits
TimerClock ==
  /\ \E p \in Procs :
       req[p].op = "sendEmail" /\ req[p].pc = "backoff" /\ now < req[p].wakeAt
  /\ now' = now + 1
  /\ UNCHANGED <<tz, sessions, bookings, users, nextSid, nextBid, req, res, cancelNotified, reminded>>

\* ------------------------------------------------------- the reminder scan
RECURSIVE Ascending(_)
Ascending(S) ==
  IF S = {} THEN <<>>
  ELSE LET m == CHOOSE x \in S : \A y \in S : x <= y
       IN <<m>> \o Ascending(S \ {m})

\* a window that opens two minutes late
startWindow_Narrow(t) == t + 2 * HOUR - 5 * MINUTE

startWindow(t) == t + 2 * HOUR - 7 * MINUTE
\* a window that closes two minutes late
endWindow_Wide(t) == t + 2 * HOUR + 10 * MINUTE

endWindow(t) == t + 2 * HOUR + 8 * MINUTE

\* the date-range query: local midnight of the window's first and last day
coarseFilter(s, t) ==
  /\ s.date >= LocalDayStart(startWindow(t), tz)
  /\ s.date <= LocalDayStart(endWindow(t), tz)
  /\ s.isActive

\* new Date(y, m, d, hours, minutes) of the session, against the window
sessionDateTime(s) == setHours(s.date, s.time, tz)

\* a window whose two ends are left out
fineFilter_Exclusive(s, t) ==
  sessionDateTime(s) > startWindow(t) /\ sessionDateTime(s) < endWindow(t)

\* a test that still accepts a session up to a quarter of an hour after the
\* window has passed it
fineFilter_Late(s, t) ==
  /\ sessionDateTime(s) >= startWindow(t) - 15 * MINUTE
  /\ sessionDateTime(s) <= endWindow(t)

fineFilter(s, t) ==
  sessionDateTime(s) >= startWindow(t) /\ sessionDateTime(s) <= endWindow(t)

\* a query that leaves the reminderSent condition out
unsentOf_Any(sid) == confirmedOf(sid)

unsentOf(sid) == {b \in confirmedOf(sid) : bookings[b].reminderSent # "true"}

\* sendSessionReminders run with new Date() = t: Session.find and the
\* synchronous filtering
ScanStart(p, t) ==
  /\ req[p] = Idle
  /\ LET due == {sid \in DOMAIN sessions :
                   coarseFilter(sessions[sid], t) /\ fineFilter(sessions[sid], t)}
     IN IF due = {}
        THEN Respond(p, "ok") /\ UNCHANGED req
        ELSE /\ Respond(p, "none")
             /\ Goto(p, [op |-> "tick", pc |-> "session", due |-> Ascending(due),
                         pending |-> <<>>, startWindow |-> startWindow(t),
                         endWindow |-> endWindow(t)])
  /\ UNCHANGED <<tz, sessions, bookings, users, nextSid, nextBid, cancelNotified, reminded>>

\* a scan started at the current instant
TickQuery(p) == ScanStart(p, now) /\ UNCHANGED now

\* Booking.find of the unsent confirmed bookings of the next due session
TickSession(p) ==
  /\ req[p].op = "tick" /\ req[p].pc = "session"
  /\ LET found == Ascending(unsentOf(Head(req[p].due)))
         rest == Tail(req[p].due)
     IN IF found # <<>>
        THEN Goto(p, [req[p] EXCEPT !.pc = "booking", !.due = rest, !.pending = found])
             /\ UNCHANGED res
        ELSE IF rest # <<>>
        THEN Goto(p, [req[p] EXCEPT !.due = rest]) /\ UNCHANGED res
        ELSE Goto(p, Idle) /\ Respond(p, "ok")
  /\ UNCHANGED <<now, tz, sessions, bookings, users, nextSid, nextBid, cancelNotified, reminded>>

\* a re-save that runs the derived-field computation again
markReminderSent_Recompute(bs, b) ==
  IF b \in DOMAIN bs
  THEN [bs EXCEPT ![b] = preSaveNew([@ EXCEPT !.reminderSent = "true"])]
  ELSE bs

\* a re-save that does not write the flag
markReminderSent_Lost(bs, b) == bs

\* the re-save of a booking after a successful send; a document that was
\* removed meanwhile is not written back
markReminderSent(bs, b) ==
  IF b \in DOMAIN bs THEN [bs EXCEPT ![b].reminderSent = "true"] ELSE bs

\* after a booking is dealt with: its session's next booking, the next due
\* session, or the end of the scan
TickNext(p) ==
  LET rest == Tail(req[p].pending)
  IN IF rest # <<>>
     THEN Goto(p, [req[p] EXCEPT !.pc = "booking", !.pending = rest]) /\ UNCHANGED res
     ELSE IF req[p].due # <<>>
     THEN Goto(p, [req[p] EXCEPT !.pc = "session", !.pending = rest]) /\ UNCHANGED res
     ELSE Goto(p, Idle) /\ Respond(p, "ok")

\* a scan that goes on to write the flag whatever the send returned
TickBooking_MarkOnFailure(p) ==
  /\ req[p].op = "tick" /\ req[p].pc = "booking"
  /\ \E success \in BOOLEAN :
       IF success
       THEN /\ reminded[Head(req[p].pending)] < MaxReminders
            /\ reminded' = [reminded EXCEPT ![Head(req[p].pending)] = @ + 1]
       ELSE UNCHANGED reminded
  /\ Goto(p, [req[p] EXCEPT !.pc = "save"]) /\ UNCHANGED res
  /\ UNCHANGED <<now, tz, sessions, bookings, users, nextSid, nextBid, cancelNotified>>

\* populate('client') of a booking whose client document is not in the users
\* collection gives null
clientMissing(b) == b \in DOMAIN bookings /\ bookings[b].client \notin DOMAIN users

\* the catch of the per-session try: the rest of this session's bookings is
\* left, and the scan goes on with the next due session or ends
TickSessionCatch(p) ==
  IF req[p].due # <<>>
  THEN Goto(p, [req[p] EXCEPT !.pc = "session", !.pending = <<>>]) /\ UNCHANGED res
  ELSE Goto(p, Idle) /\ Respond(p, "ok")

\* await emailService.sendSessionReminder for the next booking, up to the
\* result of sendEmail: the reminder is delivered, or every attempt failed
\* or the send threw, which sendSessionReminder turns into a failure result.
\* The booking document is the one the query returned, so its reminderSent
\* is not true and the "already sent" shortcut is not taken.  With a null
\* client the template throws before anything is sent, the result is a
\* failure, and booking.client.email throws in the log line after the call
\* and again in the catch of the per-booking try, so the error leaves the
\* loop over the bookings.
TickBooking(p) ==
  /\ req[p].op = "tick" /\ req[p].pc = "booking"
  /\ IF clientMissing(Head(req[p].pending))
     THEN UNCHANGED reminded /\ TickSessionCatch(p)
     ELSE \E success \in BOOLEAN :
            IF success
            THEN /\ reminded[Head(req[p].pending)] < MaxReminders
                 /\ reminded' = [reminded EXCEPT ![Head(req[p].pending)] = @ + 1]
                 /\ Goto(p, [req[p] EXCEPT !.pc = "save"]) /\ UNCHANGED res
            ELSE UNCHANGED reminded /\ TickNext(p)
  /\ UNCHANGED <<now, tz, sessions, bookings, users, nextSid, nextBid, cancelNotified>>

\* a scan that writes the flags of all delivered bookings together, after
\* the last booking of the scan
TickSave_Batch(p) ==
  /\ req[p].op = "tick" /\ req[p].pc = "save"
  /\ bookings' = IF Tail(req[p].pending) = <<>> /\ req[p].due = <<>>
                 THEN [b \in DOMAIN bookings |->
                         IF reminded[b] > 0
                         THEN [bookings[b] EXCEPT !.reminderSent = "true"]
                         ELSE bookings[b]]
                 ELSE bookings
  /\ TickNext(p)
  /\ UNCHANGED <<now, tz, sessions, users, nextSid, nextBid, cancelNotified, reminded>>

\* booking.reminderSent = true; await booking.save() after a delivered send
TickSave(p) ==
  /\ req[p].op = "tick" /\ req[p].pc = "save"
  /\ bookings' = markReminderSent(bookings, Head(req[p].pending))
  /\ TickNext(p)
  /\ UNCHANGED <<now, tz, sessions, users, nextSid, nextBid, cancelNotified, reminded>>

\* a rejected query after which every booking is marked as sent
TickQueryFails_Marks(p) ==
  /\ req[p] = Idle
  /\ Respond(p, "err_logged")
  /\ bookings' = [b \in DOMAIN bookings |-> [bookings[b] EXCEPT !.reminderSent = "true"]]
  /\ UNCHANGED <<now, tz, sessions, users, nextSid, nextBid, req, cancelNotified, reminded>>

\* Session.find rejects: the catch of the outer try logs the error and the
\* scan is over
TickQueryFails(p) ==
  /\ req[p] = Idle
  /\ Respond(p, "err_logged")
  /\ UNCHANGED <<now, tz, sessions, bookings, users, nextSid, nextBid, req, cancelNotified, reminded>>

\* Booking.find rejects: the catch of the per-session try logs the error
TickSessionFails(p) ==
  /\ req[p].op = "tick" /\ req[p].pc = "session"
  /\ LET rest == Tail(req[p].due)
     IN IF rest # <<>>
        THEN Goto(p, [req[p] EXCEPT !.due = rest]) /\ UNCHANGED res
        ELSE Goto(p, Idle) /\ Respond(p, "ok")
  /\ UNCHANGED <<now, tz, sessions, bookings, users, nextSid, nextBid, cancelNotified, reminded>>

\* booking.save() rejects after a delivered send: the flag is not written,
\* and the scan goes on with the next booking
TickSaveFails(p) ==
  /\ req[p].op = "tick" /\ req[p].pc = "save"
  /\ TickNext(p)
  /\ UNCHANGED <<now, tz, sessions, bookings, users, nextSid, nextBid, cancelNotified, reminded>>

\* transporter.sendMail never settles: sendEmail, sendSessionReminder and the
\* scan wait at their awaits, and neither the createTransport options nor
\* sendEmail set a time limit that would end the wait
TickBookingHangs(p) ==
  /\ req[p].op = "tick" /\ req[p].pc = "booking"
  /\ ~clientMissing(Head(req[p].pending))
  /\ Goto(p, [req[p] EXCEPT !.pc = "hung"])
  /\ UNCHANGED <<now, tz, sessions, bookings, users, nextSid, nextBid, res, cancelNotified, reminded>>

\* a reset that clears the marker of one marked booking only
ResetReminderFlags_One(p) ==
  /\ req[p] = Idle
  /\ bookings' = [b \in DOMAIN bookings |->
                    IF /\ bookings[b].reminderSent = "true"
                       /\ \A o \in DOMAIN bookings :
                            bookings[o].reminderSent = "true" => o >= b
                    THEN [bookings[b] EXCEPT !.reminderSent = "unset"]
                    ELSE bookings[b]]
  /\ Respond(p, "ok")
  /\ UNCHANGED <<now, tz, sessions, users, nextSid, nextBid, req, cancelNotified, reminded>>

\* resetReminderFlags: updateMany({reminderSent: true}, {$unset})
ResetReminderFlags(p) ==
  /\ req[p] = Idle
  /\ bookings' = [b \in DOMAIN bookings |->
                    IF bookings[b].reminderSent = "true"
                    THEN [bookings[b] EXCEPT !.reminderSent = "unset"]
                    ELSE bookings[b]]
  /\ Respond(p, "ok")
  /\ UNCHANGED <<now, tz, sessions, users, nextSid, nextBid, req, cancelNotified, reminded>>

\* the timer: cron's '*/15 * * * *' fires at every quarter of an hour and its
\* callback awaits one scan
CronPeriod == 15 * MINUTE
CronStart == Day(10) + 15 * HOUR
CronFire(p) ==
  /\ now < CronStart - tz + MaxFirings * CronPeriod
  /\ now' = now + CronPeriod
  /\ ScanStart(p, now')

\* ------------------------------------------------------------- the clock
Instants(off) ==
  {T0} \cup UNION {
    LET start == setHours(d, t, off)
    IN {start - DAY - 1, start - DAY, start - DAY + 1, start - 2 * HOUR - 3 * MINUTE}
    : d \in DateInputs, t \in TimeInputs}

ClockAdvance ==
  /\ \E t \in Instants(tz) : t > now /\ now' = t
  /\ UNCHANGED <<tz, sessions, bookings, users, nextSid, nextBid, req, res, cancelNotified, reminded>>

\* the clock around the end of a package that was added at the start
ExpiryInstants ==
  {T0, T0 + AddPackageDays * DAY - 1, T0 + AddPackageDays * DAY,
   T0 + AddPackageDays * DAY + 1}

ExpiryClock ==
  /\ \E t \in ExpiryInstants : t > now /\ now' = t
  /\ UNCHANGED <<tz, sessions, bookings, users, nextSid, nextBid, req, res, cancelNotified, reminded>>

\* the clock around the reminder window of a session: one second before the
\* window opens, its first instant, an instant inside it, its last instant
\* and one second after it
WindowInstants(off) ==
  {T0} \cup UNION {
    LET start == setHours(d, t, off)
    IN {start - 2 * HOUR - 8 * MINUTE - 1, start - 2 * HOUR - 8 * MINUTE,
        start - 2 * HOUR - 3 * MINUTE, start - 2 * HOUR + 7 * MINUTE,
        start - 2 * HOUR + 7 * MINUTE + 1}
    : d \in DateInputs, t \in TimeInputs}

WindowClock ==
  /\ \E t \in WindowInstants(tz) : t > now /\ now' = t
  /\ UNCHANGED <<tz, sessions, bookings, users, nextSid, nextBid, req, res, cancelNotified, reminded>>

\* ------------------------------------------------------ the specifications
Init ==
  /\ now = T0
  /\ tz \in TZOffsets
  /\ sessions = <<>>
  /\ bookings = <<>>
  /\ users = [c \in Clients |-> [activeSessions |-> 0, packageExpiry |-> Null]]
  /\ nextSid = 1
  /\ nextBid = 1
  /\ req = [p \in Procs |-> Idle]
  /\ res = [p \in Procs |-> "none"]
  /\ cancelNotified = {}
  /\ reminded = [b \in BookingIds |-> 0]

Book(p, L) ==
  \/ \E c \in L.clients, sid \in SessionIds, g \in L.sizes, pkg \in L.flags :
       BookFind(p, c, sid, g, pkg)
  \/ BookCapacity(p) \/ BookSave(p) \/ BookPackage(p) \/ BookMail(p)
Cancel(p, L) ==
  \/ \E r \in L.requesters, bid \in BookingIds : CancelFind(p, r, bid)
  \/ CancelPackage(p) \/ CancelMail(p) \/ CancelDelete(p)
Create(p, L) ==
  \/ \E d \in DateInputs, t \in TimeInputs, cap \in L.capacities, tr \in L.trainers :
       CreateFind(p, d, t, cap, tr)
  \/ CreateSave(p)
Delete(p) ==
  \/ \E sid \in SessionIds : DeleteFind(p, sid)
  \/ DeleteMail(p) \/ DeleteBookings(p) \/ DeleteSessionDoc(p)
AddPackage(p, L) ==
  \/ \E u \in L.requesters : AddPackageFind(p, u)
  \/ AddPackageUpdate(p)
Reset(p, L) == \E u \in L.clients : ResetPackage(p, u)
Notes(p) == \E bid \in BookingIds, n \in NoteInputs : UpdateNotes(p, bid, n)
Tick(p) == TickQuery(p) \/ TickSession(p) \/ TickBooking(p) \/ TickSave(p)

\* Sessions, bookings, cancellations and session deletions, each request
\* running to completion before the next one starts.
SeqLoad == Load({"c1"}, {"c1", "c2", Admin}, {0, 1, 2, 5}, BOOLEAN, Trainers, {2, 3})
NextSeq == Create(1, SeqLoad) \/ Book(1, SeqLoad) \/ Cancel(1, SeqLoad) \/ Delete(1)
SpecSeq == Init /\ [][NextSeq]_vars

\* Booking requests that interleave at their awaits.
RaceLoad == Load({"c1"}, {}, {1, 2}, BOOLEAN, {"t1"}, {2, 3})
NextRace == Create(1, RaceLoad) \/ \E p \in Procs : Book(p, RaceLoad)
SpecRace == Init /\ [][NextRace]_vars

\* Bookings and cancellations as the clock passes the deadline.
CancelLoad == Load({"c1"}, {"c1", "c2", Admin}, {1}, BOOLEAN, {"t1"}, {2})
NextCancel ==
  ClockAdvance \/ Create(1, CancelLoad) \/ Book(1, CancelLoad) \/ Cancel(1, CancelLoad)
SpecCancel == Init /\ [][NextCancel]_vars

\* The operations that write a booking or its session after its creation.
FrameLoad == Load({"c1"}, {}, {1}, BOOLEAN, {"t1"}, {2})
NextFrame ==
  \/ ClockAdvance \/ Create(1, FrameLoad) \/ Book(1, FrameLoad) \/ Delete(1)
  \/ Notes(1) \/ Tick(1) \/ ResetReminderFlags(1)
SpecFrame == Init /\ [][NextFrame]_vars

\* The package counter: package bookings, cancellations, add and reset.
PackageLoad == Load({"c1"}, {"c1", Admin}, {1}, BOOLEAN, {"t1"}, {2})
NextPackage ==
  \/ ClockAdvance \/ Create(1, PackageLoad) \/ Book(1, PackageLoad)
  \/ Cancel(1, PackageLoad) \/ AddPackage(1, PackageLoad) \/ Reset(1, PackageLoad)
SpecPackage == Init /\ [][NextPackage]_vars

\* The account of one client: packages added, reset and asked about as the
\* clock passes the end of a package.
AccountLoad == Load({"c1"}, {"c1", Admin}, {1}, {TRUE}, {"t1"}, {2})
Account(p) == \E c \in Clients : MyPackage(p, c)
NextAccount ==
  \/ ExpiryClock \/ Create(1, AccountLoad) \/ Book(1, AccountLoad)
  \/ AddPackage(1, AccountLoad) \/ Reset(1, AccountLoad) \/ Account(1)
SpecAccount == Init /\ [][NextAccount]_vars

\* Package bookings, cancellations and add-package requests for one client
\* that interleave at their awaits.
CounterLoad == Load({"c1"}, {"c1"}, {1}, {TRUE}, {"t1"}, {2})
NextCounter ==
  \/ Create(1, CounterLoad)
  \/ \E p \in Procs : Book(p, CounterLoad) \/ Cancel(p, CounterLoad)
                           \/ AddPackage(p, CounterLoad)
SpecCounter == Init /\ [][NextCounter]_vars

\* The reminder scan, one run at a time, as the clock passes the window of
\* a session; the flags are never reset.
RemindLoad == Load({"c1"}, {"c1"}, {1}, BOOLEAN, {"t1"}, {2})
NextRemind ==
  \/ WindowClock \/ Create(1, RemindLoad) \/ Book(1, RemindLoad) \/ Tick(1)
SpecRemind == Init /\ [][NextRemind]_vars

\* Runs of the reminder scan that overlap: the timer's and a manual one.
\* One session is in the store with a confirmed booking under every booking
\* _id, made at the start.
InitOverlap ==
  /\ now = T0
  /\ tz \in TZOffsets
  /\ \E d \in DateInputs, t \in TimeInputs :
       sessions = (1 :> NewSession([date |-> d, time |-> t,
                                    maxCapacity |-> MaxGroupSize, trainer |-> "t1"]))
  /\ bookings = [b \in BookingIds |->
                   preSaveNew(NewBooking([session |-> 1, client |-> "c1",
                                          groupSize |-> 1,
                                          isPackageBooking |-> FALSE]))]
  /\ users = [c \in Clients |-> [activeSessions |-> 0, packageExpiry |-> Null]]
  /\ nextSid = 2
  /\ nextBid = MaxBookings + 1
  /\ req = [p \in Procs |-> Idle]
  /\ res = [p \in Procs |-> "none"]
  /\ cancelNotified = {}
  /\ reminded = [b \in BookingIds |-> 0]
NextOverlap == WindowClock \/ \E p \in Procs : Tick(p)
SpecOverlap == InitOverlap /\ [][NextOverlap]_vars

\* The scans the timer starts, one every quarter of an hour from 15:15 of the
\* server's day on, each finished before the next: one session of that day is
\* in the store with a confirmed booking under every booking _id.
CronTimes == {<<17, 23>>, <<17, 53>>, <<17, 54>>, <<18, 0>>, <<18, 8>>, <<18, 9>>}
InitCron ==
  /\ tz \in TZOffsets
  /\ now = CronStart - tz
  /\ \E t \in CronTimes :
       sessions = (1 :> NewSession([date |-> Day(10), time |-> t,
                                    maxCapacity |-> MaxGroupSize, trainer |-> "t1"]))
  /\ bookings = [b \in BookingIds |->
                   preSaveNew(NewBooking([session |-> 1, client |-> "c1",
                                          groupSize |-> 1,
                                          isPackageBooking |-> FALSE]))]
  /\ users = [c \in Clients |-> [activeSessions |-> 0, packageExpiry |-> Null]]
  /\ nextSid = 2
  /\ nextBid = MaxBookings + 1
  /\ req = [p \in Procs |-> Idle]
  /\ res = [p \in Procs |-> "none"]
  /\ cancelNotified = {}
  /\ reminded = [b \in BookingIds |-> 0]
NextCron == CronFire(1) \/ TickSession(1) \/ TickBooking(1) \/ TickSave(1)
SpecCron == InitCron /\ [][NextCron]_vars

\* Scans in which the store rejects a query or a save, or in which the client
\* document of a booking is no longer in the users collection (no route
\* removes a user; the document was removed in the database).  Two sessions
\* of the same slot, one per trainer, are in the store, with a confirmed
\* booking under every booking _id.
InitFault ==
  /\ now = T0
  /\ tz \in TZOffsets
  /\ \E d \in DateInputs, t \in TimeInputs :
       sessions = [sid \in {1, 2} |->
                     NewSession([date |-> d, time |-> t, maxCapacity |-> MaxGroupSize,
                                 trainer |-> IF sid = 1 THEN "t1" ELSE "t2"])]
  /\ \E of \in [BookingIds -> {1, 2}], by \in [BookingIds -> Clients] :
       bookings = [b \in BookingIds |->
                     preSaveNew(NewBooking([session |-> of[b], client |-> by[b],
                                            groupSize |-> 1,
                                            isPackageBooking |-> FALSE]))]
  /\ \E gone \in {{}, {"c1"}, {"c2"}} :
       users = [c \in Clients \ gone |-> [activeSessions |-> 0, packageExpiry |-> Null]]
  /\ nextSid = 3
  /\ nextBid = MaxBookings + 1
  /\ req = [p \in Procs |-> Idle]
  /\ res = [p \in Procs |-> "none"]
  /\ cancelNotified = {}
  /\ reminded = [b \in BookingIds |-> 0]
NextFault ==
  \/ WindowClock
  \/ Tick(1)
  \/ TickQueryFails(1)
  \/ TickSessionFails(1)
  \/ TickSaveFails(1)
SpecFault == InitFault /\ [][NextFault]_vars

\* Calls of sendEmail, one at a time, against every sequence of answers of
\* the transport, with the seconds that pass while a call waits.
InitRetry ==
  /\ now = T0
  /\ tz = 0
  /\ sessions = <<>>
  /\ bookings = <<>>
  /\ users = [c \in Clients |-> [activeSessions |-> 0, packageExpiry |-> Null]]
  /\ nextSid = 1
  /\ nextBid = 1
  /\ req = [p \in Procs |-> Idle]
  /\ res = [p \in Procs |-> "none"]
  /\ cancelNotified = {}
  /\ reminded = [b \in BookingIds |-> 0]
SendEmail(p) ==
  \/ \E answers \in [1 .. DefaultMaxRetries -> SendAnswers] : SendEmailCall(p, answers)
  \/ SendEmailAttempt(p)
  \/ SendEmailResume(p)
NextRetry == TimerClock \/ SendEmail(1)
SpecRetry == InitRetry /\ [][NextRetry]_vars

\* One request at a time, with emails that cannot be sent: sessions are
\* created and deleted, and bookings made and cancelled by the client or the
\* admin.
NotifyLoad == Load({"c1"}, {"c1", Admin}, {1}, BOOLEAN, {"t1"}, {2})
NextNotify ==
  \/ Create(1, NotifyLoad)
  \/ Book(1, NotifyLoad)
  \/ BookMailFails(1)
  \/ BookRespond(1)
  \/ Cancel(1, NotifyLoad)
  \/ CancelMailFails(1)
  \/ Delete(1)
  \/ DeleteMailFails(1)
SpecNotify == Init /\ [][NextNotify]_vars

\* Scans during which the mail server may leave an attempt unanswered, over
\* the store of the overlapping scans.
NextHang == WindowClock \/ Tick(1) \/ TickBookingHangs(1)
SpecHang == InitOverlap /\ [][NextHang]_vars

\* Scans during which the session query may be rejected, over the same store.
NextStore == WindowClock \/ Tick(1) \/ TickQueryFails(1)
SpecStore == InitOverlap /\ [][NextStore]_vars

\* Session creations by several admin requests at once, for either trainer
\* and in the one slot, with deletions in between.
CreateRaceLoad == Load({}, {}, {1}, {FALSE}, Trainers, {2, 3})
NextCreateRace ==
  \E p \in Procs :
    \/ Create(p, CreateRaceLoad)
    \/ \E sid \in SessionIds : DeleteFind(p, sid)
    \/ DeleteBookings(p)
    \/ DeleteSessionDoc(p)
SpecCreateRace == Init /\ [][NextCreateRace]_vars

\* The deadline computation over a range of stored dates, times of day and
\* server offsets: one session is in the store, and bookings are made for it.
DeadlineDates == {Day(10), Day(10) + 15 * HOUR, Day(10) + 23 * HOUR, Day(11) - 2 * HOUR}
DeadlineTimes == {<<18, 0>>, <<0, 0>>, <<9, 30>>, <<23, 59>>}
DeadlineOffsets == {0, 2 * HOUR, 0 - 5 * HOUR}
DeadlineLoad == Load({"c1"}, {}, {1}, BOOLEAN, {"t1"}, {2})
InitDeadline ==
  /\ now = T0
  /\ tz \in DeadlineOffsets
  /\ \E d \in DeadlineDates, t \in DeadlineTimes :
       sessions = (1 :> NewSession([date |-> d, time |-> t, maxCapacity |-> 2,
                                    trainer |-> "t1"]))
  /\ bookings = <<>>
  /\ users = [c \in Clients |-> [activeSessions |-> 0, packageExpiry |-> Null]]
  /\ nextSid = 2
  /\ nextBid = 1
  /\ req = [p \in Procs |-> Idle]
  /\ res = [p \in Procs |-> "none"]
  /\ cancelNotified = {}
  /\ reminded = [b \in BookingIds |-> 0]
NextDeadline == ClockAdvance \/ Book(1, DeadlineLoad)
SpecDeadline == InitDeadline /\ [][NextDeadline]_vars

\* Booking requests that interleave at their awaits with session deletions
\* and cancellations; a cancellation's notification may fail to be sent.
OrphanLoad == Load({"c1"}, {"c1", Admin}, {1}, BOOLEAN, {"t1"}, {2})
NextOrphan ==
  \/ Create(1, OrphanLoad) \/ Book(1, OrphanLoad)
  \/ Delete(2) \/ Cancel(2, OrphanLoad) \/ CancelMailFails(2)
SpecOrphan == Init /\ [][NextOrphan]_vars

\* =============================================================== properties
\* the capacity of session sid that its confirmed bookings consume
Consumed(sid) ==
  LET f[n \in 0 .. MaxBookings + 1] ==
        IF n = 0 THEN 0
        ELSE f[n - 1] + (IF n \in DOMAIN bookings /\ bookings[n].session = sid
                            /\ bookings[n].status = "confirmed"
                         THEN bookings[n].groupSize ELSE 0)
  IN f[MaxBookings + 1]

BookErrors == {"err_session", "err_size", "err_capacity"}

\* C1: when each request runs to completion before the next one starts, the
\* group sizes of the confirmed bookings of every session add up to at most
\* the session's maxCapacity, in every reachable state.
C1_CapacitySequential ==
  \A sid \in DOMAIN sessions : Consumed(sid) <= sessions[sid].maxCapacity

\* C1 witness: a session filled exactly to its capacity by two bookings.
C1_Witness ==
  \E sid \in DOMAIN sessions :
    /\ Consumed(sid) = sessions[sid].maxCapacity
    /\ Cardinality(confirmedOf(sid)) = 2

\* C2: also when booking requests for one session interleave, no session
\* ever holds confirmed bookings for more than its maxCapacity.
C2_CapacityConcurrent ==
  \A sid \in DOMAIN sessions : sessions[sid].maxCapacity - Consumed(sid) >= 0

\* C3: a booking request for an existing active session with a group size
\* in 1..4 is admitted (goes on to insert its booking) exactly when
\* maxCapacity minus the group sizes of the session's confirmed bookings is
\* at least the requested size; otherwise it is refused for capacity; and an
\* admitted request inserts one confirmed booking of that size.
C3_Admission ==
  [][ /\ (req[1].op = "book" /\ req[1].pc = "capacity") =>
           LET sid == req[1].session
               available == sessions[sid].maxCapacity - Consumed(sid)
           IN /\ sid \in DOMAIN sessions /\ sessions[sid].isActive
              /\ req[1].groupSize \in MinGroupSize .. MaxGroupSize
              /\ IF available >= req[1].groupSize
                 THEN req'[1].op = "book" /\ req'[1].pc = "save"
                 ELSE req'[1] = Idle /\ res'[1] = "err_capacity"
              /\ bookings' = bookings
      /\ (req[1].op = "book" /\ req[1].pc = "save") =>
           /\ DOMAIN bookings' = DOMAIN bookings \cup {nextBid}
           /\ nextBid \notin DOMAIN bookings
           /\ bookings'[nextBid].session = req[1].session
           /\ bookings'[nextBid].groupSize = req[1].groupSize
           /\ bookings'[nextBid].status = "confirmed"
           /\ \A b \in DOMAIN bookings : bookings'[b] = bookings[b]
    ]_vars

\* C3 witness: the only session ever created had a booking that was cancelled,
\* and a request that exactly fills the session has passed the capacity check.
C3_Witness ==
  /\ req[1].op = "book" /\ req[1].pc = "save"
  /\ nextSid = 2 /\ nextBid = 2 /\ cancelNotified = {1}
  /\ sessions[req[1].session].maxCapacity - Consumed(req[1].session) = req[1].groupSize

\* C4: a booking request that is refused (unknown or inactive session, group
\* size outside 1..4, not enough capacity) answers with an error and leaves
\* the bookings, the sessions and every client's activeSessions and
\* packageExpiry as they were, whatever its package flag.  A request gets
\* past its first checks only with a known active session and a size in 1..4;
\* a request answered at once is a refusal; a booking request past its first
\* checks ends without success only for lack of capacity.
C4_RejectedBookingChangesNothing ==
  [][ /\ (req[1] = Idle /\ req'[1] # Idle /\ req'[1].op = "book") =>
           /\ req'[1].session \in DOMAIN sessions
           /\ sessions[req'[1].session].isActive
           /\ req'[1].groupSize >= 1 /\ req'[1].groupSize <= 4
      /\ (req[1] = Idle /\ req'[1] = Idle) =>
           /\ res'[1] \in BookErrors \cup {"err_notfound", "err_auth", "err_window", "err_dup"}
           /\ UNCHANGED <<bookings, users, sessions, nextBid>>
      /\ (req[1].op = "book" /\ req'[1] = Idle /\ res'[1] # "ok") =>
           /\ req[1].pc = "capacity" /\ res'[1] = "err_capacity"
           /\ sessions[req[1].session].maxCapacity - Consumed(req[1].session)
                < req[1].groupSize
           /\ UNCHANGED <<bookings, users, sessions, nextBid>>
    ]_vars

\* C4 witness: a package-flagged request waits at a capacity check that it
\* fails, and the last request was refused for capacity as well.
C4_Witness ==
  /\ req[1].op = "book" /\ req[1].pc = "capacity" /\ req[1].isPackageBooking
  /\ sessions[req[1].session].maxCapacity - Consumed(req[1].session) < req[1].groupSize
  /\ users[req[1].client].activeSessions = 1

\* C5: a cancellation asked for by the administrator is let through at any
\* time; one asked for by the booking's client is let through exactly when
\* the current time is strictly before the stored cancellationDeadline, and
\* is otherwise refused with the cancellation-window error.
C5_CancellationPermission ==
  [][ \A r \in Clients \cup {Admin}, b \in DOMAIN bookings :
        (CancelFind(1, r, b) /\ (r = Admin \/ bookings[b].client = r)) =>
          LET d == bookings[b].cancellationDeadline
          IN IF r = Admin \/ (d # Null /\ now <= d[1] - 1)
             THEN req'[1].op = "cancel" /\ req'[1].booking = b
             ELSE req'[1] = Idle /\ res'[1] = "err_window"
    ]_vars

\* C5 witness: the client's cancellation was refused at exactly the deadline.
C5_Witness ==
  /\ req[1] = Idle /\ res[1] = "err_window"
  /\ \E b \in DOMAIN bookings : bookings[b].cancellationDeadline = <<now>>

\* C6: a client's cancellation that is refused because the deadline has
\* passed answers with an error and changes nothing: the booking stays
\* confirmed, the session's consumed capacity and the client's
\* activeSessions are as before, and no cancellation notification is sent.
C6_RefusedCancellationChangesNothing ==
  [][ \A r \in Clients, b \in DOMAIN bookings :
        (CancelFind(1, r, b) /\ bookings[b].client = r
           /\ bookings[b].cancellationDeadline # Null
           /\ now >= bookings[b].cancellationDeadline[1]) =>
          /\ res'[1] = "err_window" /\ req'[1] = Idle
          /\ b \in DOMAIN bookings' /\ bookings'[b] = bookings[b]
          /\ bookings'[b].status = "confirmed"
          /\ UNCHANGED <<bookings, users, cancelNotified, sessions>>
    ]_vars

\* C6 witness: a refused cancellation of a package-flagged booking: the
\* booking is still there, not notified, and the counter still counts it.
C6_Witness ==
  /\ req[1] = Idle /\ res[1] = "err_window"
  /\ \E b \in DOMAIN bookings :
       /\ bookings[b].isPackageBooking /\ bookings[b].status = "confirmed"
       /\ ~(now < bookings[b].cancellationDeadline[1])
       /\ b \notin cancelNotified
       /\ users[bookings[b].client].activeSessions = 1
       /\ DOMAIN bookings = {b}

C8_DeadlineFrozen ==
  [][ \A b \in DOMAIN bookings \cap DOMAIN bookings' :
        /\ bookings'[b].cancellationDeadline = bookings[b].cancellationDeadline
        /\ bookings'[b].canCancel = bookings[b].canCancel
    ]_vars

\* C8 witness: a booking made before its deadline whose reminder was sent
\* and whose flag was then reset, with notes written, after the deadline:
\* it still carries canCancel = true and the deadline of its creation.
C8_Witness ==
  \E b \in DOMAIN bookings :
    /\ bookings[b].reminderSent = "unset" /\ bookings[b].notes = "late"
    /\ bookings[b].canCancel = <<TRUE>>
    /\ bookings[b].cancellationDeadline # Null
    /\ now > bookings[b].cancellationDeadline[1]
    /\ \E c \in DOMAIN bookings : bookings[c].reminderSent = "true"

\* C9: no client's activeSessions is ever negative, whatever the order of
\* package bookings, cancellations of package-flagged bookings, add-package
\* and reset-package.
C9_ActiveSessionsNonNegative ==
  \A c \in Clients : users[c].activeSessions >= 0

\* C10: the package update of an admitted package-flagged booking adds
\* exactly 1 to the booking client's activeSessions and sets packageExpiry
\* to the current time plus the session's packageDuration days, once per
\* booking; an admitted booking without the flag, and every other step of a
\* booking request, leaves every client's package fields as they were.
C10_PackageBooking ==
  [][ (req[1].op = "book" /\ req'[1] # req[1]) =>
        /\ req[1].pc = "save" =>
             req'[1].pc = IF req[1].isPackageBooking THEN "package" ELSE "mail"
        /\ req[1].pc = "package" =>
             LET c == req[1].client
                 days == sessions[req[1].session].packageDuration
             IN /\ req[1].isPackageBooking
                /\ users'[c].activeSessions = users[c].activeSessions + 1
                /\ users'[c].packageExpiry = <<now + days * 24 * HOUR>>
                /\ \A o \in Clients \ {c} : users'[o] = users[o]
                /\ req'[1].pc = "mail"
        /\ req[1].pc # "package" => users' = users
        /\ req[1].pc = "mail" => req'[1] = Idle /\ res'[1] = "ok"
    ]_vars

\* C10 witness: a second package booking, made later than the first, has
\* just had its update: the counter is 2 and the expiry is 90 days from now.
C10_Witness ==
  /\ req[1].op = "book" /\ req[1].pc = "mail" /\ req[1].isPackageBooking
  /\ now > T0
  /\ users[req[1].client].activeSessions = 2
  /\ users[req[1].client].packageExpiry = <<now + 90 * DAY>>

\* C11: an add-package request for an existing client goes on to its update,
\* and the update adds exactly 8 to that client's activeSessions and sets
\* packageExpiry to the current time plus 90 days, whatever the counter and
\* the expiry were, and touches nothing else; a request that names a user
\* who is not a client is answered "not found" and changes nothing.
C11_AddPackage ==
  [][ /\ \A u \in Clients \cup {Admin} :
           AddPackageFind(1, u) =>
             /\ UNCHANGED <<users, bookings, sessions>>
             /\ IF u \in Clients
                THEN req'[1].op = "addPackage" /\ req'[1].client = u
                ELSE req'[1] = Idle /\ res'[1] = "err_notfound"
      /\ (req[1].op = "addPackage" /\ req'[1] # req[1]) =>
           LET c == req[1].client
           IN /\ users'[c].activeSessions = users[c].activeSessions + 8
              /\ users'[c].packageExpiry = <<now + 90 * 24 * HOUR>>
              /\ \A o \in Clients \ {c} : users'[o] = users[o]
              /\ UNCHANGED <<bookings, sessions>>
              /\ req'[1] = Idle /\ res'[1] = "ok"
    ]_vars

\* C11 witness: a package was added after the deadline of a package-flagged
\* booking that was made before it: the counter went from 1 to 9 and the
\* expiry from the booking's to 90 days from now.
C11_Witness ==
  /\ req[1] = Idle /\ res[1] = "ok" /\ nextBid = 2
  /\ 1 \in DOMAIN bookings /\ bookings[1].isPackageBooking
  /\ bookings[1].canCancel = <<TRUE>>
  /\ now > bookings[1].cancellationDeadline[1]
  /\ users["c1"] = [activeSessions |-> 9, packageExpiry |-> <<now + 90 * DAY>>]

\* C12: a reset-package sets the named client's activeSessions to 0 and its
\* packageExpiry to unset whatever they were, so that hasActivePackage is
\* false right after it, also when a package had just been added; no other
\* client, booking or session is touched.
C12_ResetPackage ==
  [][ \A u \in Clients :
        ResetPackage(1, u) =>
          /\ users'[u].activeSessions = 0
          /\ users'[u].packageExpiry = Null
          /\ hasActivePackage(users'[u], now') = <<FALSE>>
          /\ \A o \in Clients \ {u} : users'[o] = users[o]
          /\ UNCHANGED <<bookings, sessions>>
          /\ res'[1] = "ok"
    ]_vars

\* C12 witness: a reset has answered for a client whose package-flagged
\* booking is still in the store: the counter that the booking raised and
\* the expiry that it set are gone.
C12_Witness ==
  /\ req[1] = Idle /\ res[1] = "ok" /\ nextBid = 2
  /\ 1 \in DOMAIN bookings /\ bookings[1].isPackageBooking
  /\ users["c1"] = [activeSessions |-> 0, packageExpiry |-> Null]

\* C13: a reset-package of a client whose activeSessions is 0 and whose
\* packageExpiry is unset changes nothing in the store, and the state a
\* reset leaves is a state that a further reset of the same client leaves as
\* it is.
C13_ResetIdempotent ==
  [][ \A u \in Clients :
        ResetPackage(1, u) =>
          /\ (users[u].activeSessions = 0 /\ users[u].packageExpiry = Null) =>
               UNCHANGED <<users, bookings, sessions, now>>
          /\ [users' EXCEPT ![u] = AdminResetPackage(@)] = users'
    ]_vars

\* C13 witness: a reset has answered at the start, when no package had been
\* added and no booking made: the client is as it was created.
C13_Witness ==
  /\ req[1] = Idle /\ res[1] = "ok"
  /\ nextSid = 1 /\ nextBid = 1 /\ now = T0
  /\ \A c \in Clients : users[c] = [activeSessions |-> 0, packageExpiry |-> Null]

\* C14: the package answer for a client is "active" exactly when its
\* activeSessions is above 0, its packageExpiry is set and the current time
\* is strictly before the expiry; a counter of 0, an unset expiry, and a
\* current time at or after the expiry each give an answer that is not
\* "active".
C14_HasActivePackage ==
  [][ \A c \in Clients :
        MyPackage(1, c) =>
          LET u == users[c]
          IN /\ (res'[1] = "package_active") <=>
                  (u.activeSessions > 0 /\ u.packageExpiry # Null
                     /\ now < u.packageExpiry[1])
             /\ u.activeSessions = 0 => res'[1] = "package_inactive"
             /\ u.packageExpiry = Null => res'[1] # "package_active"
             /\ (u.packageExpiry # Null /\ now >= u.packageExpiry[1]) =>
                  res'[1] # "package_active"
    ]_vars

\* C14 witness: a client with a positive counter asked at the very instant
\* the package expires and was answered "not active".
C14_Witness ==
  /\ req[1] = Idle /\ res[1] = "package_inactive"
  /\ users["c1"].activeSessions > 0
  /\ users["c1"].packageExpiry = <<now>>

\* C15: when package bookings, cancellations of package-flagged bookings
\* and add-package requests for one client interleave, every step changes
\* the client's activeSessions by exactly the amount of the update it
\* carries out on the value then stored: +1 for a booking's update, -1 for a
\* cancellation's, +8 for an add-package's, 0 for every other step; and each
\* request carries out its update once.
C15_CounterUpdatesAtomic ==
  [][ /\ \A c \in Clients :
           users'[c].activeSessions - users[c].activeSessions =
             IF \E p \in Procs : /\ req'[p] # req[p] /\ req[p].op = "book"
                                 /\ req[p].pc = "package" /\ req[p].client = c
             THEN 1
             ELSE IF \E p \in Procs : /\ req'[p] # req[p] /\ req[p].op = "cancel"
                                      /\ req[p].pc = "package" /\ req[p].client = c
             THEN 0 - 1
             ELSE IF \E p \in Procs : /\ req'[p] # req[p] /\ req[p].op = "addPackage"
                                      /\ req[p].pc = "update" /\ req[p].client = c
             THEN 8
             ELSE 0
      /\ \A p \in Procs :
           (req'[p] # req[p] /\ req[p] # Idle /\ req[p].pc \in {"package", "update"}) =>
             (req'[p] = Idle \/ req'[p].pc = "mail")
    ]_vars

\* C15 witness: a package booking and a cancellation of an earlier
\* package-flagged booking are in flight together, both past their updates,
\* after a package was added: the counter is 1 + 8 + 1 - 1.
C15_Witness ==
  /\ req[1].op = "book" /\ req[1].pc = "mail" /\ req[1].isPackageBooking
  /\ req[2].op = "cancel" /\ req[2].pc = "mail"
  /\ bookings[req[2].booking].isPackageBooking
  /\ nextBid = 3
  /\ users["c1"].activeSessions = 9

\* the elements of a sequence
Range(q) == {q[i] : i \in DOMAIN q}
\* the instant a session starts: the server's calendar day of its date, at
\* its hour and minute
StartOf(s) ==
  ((s.date + tz) \div DAY) * DAY - tz + s.time[1] * 3600 + s.time[2] * 60

\* C16: when one scan runs at a time and the flags are never reset, no
\* booking is ever delivered more than one reminder: a booking whose
\* reminderSent is true is delivered nothing more and keeps the flag, and a
\* scan never takes up a booking that is marked, also when the booking's
\* session is still inside the window of that scan.
C16_OneTimeReminder ==
  [][ /\ \A b \in BookingIds : reminded'[b] <= 1
      /\ \A b \in DOMAIN bookings :
           bookings[b].reminderSent = "true" =>
             /\ reminded'[b] = reminded[b]
             /\ b \in DOMAIN bookings' /\ bookings'[b].reminderSent = "true"
      /\ (req'[1] # Idle /\ req'[1].op = "tick" /\ req'[1].pc = "booking") =>
           bookings'[Head(req'[1].pending)].reminderSent # "true"
    ]_vars

\* C16 witness: a later scan has found the session inside its window again,
\* at the last instant of the window, and every booking of the session
\* already carries the flag and its one reminder.
C16_Witness ==
  /\ req[1].op = "tick" /\ req[1].pc = "session"
  /\ LET sid == Head(req[1].due)
     IN /\ confirmedOf(sid) # {}
        /\ req[1].startWindow = StartOf(sessions[sid])
        /\ \A b \in confirmedOf(sid) :
             bookings[b].reminderSent = "true" /\ reminded[b] = 1

\* C17: also when two runs of the scan overlap, no booking is delivered two
\* reminders.
C17_NoDoubleSend ==
  \A b \in BookingIds : reminded[b] < 2

\* C18: a scan takes up every confirmed booking of a due session whose
\* reminderSent is not true; a delivered reminder is followed by the save
\* that sets the booking's reminderSent to true; and when the scan ends,
\* every booking that was delivered a reminder has reminderSent = true.
C18_MarkedWithinTick ==
  [][ (req[1].op = "tick" /\ req'[1] # req[1]) =>
        /\ (req[1].pc = "session" /\ req'[1] # Idle /\ req'[1].pc = "booking") =>
             Range(req'[1].pending) =
               {b \in DOMAIN bookings :
                  /\ bookings[b].session = Head(req[1].due)
                  /\ bookings[b].status = "confirmed"
                  /\ bookings[b].reminderSent # "true"}
        /\ (req[1].pc = "booking" /\ reminded' # reminded) =>
             /\ req'[1] # Idle /\ req'[1].pc = "save"
             /\ req'[1].pending = req[1].pending
        /\ req[1].pc = "save" =>
             bookings'[Head(req[1].pending)].reminderSent = "true"
        /\ req'[1] = Idle =>
             \A b \in DOMAIN bookings' :
               reminded'[b] > 0 => bookings'[b].reminderSent = "true"
    ]_vars

\* C18 witness: a scan has ended 2 hours and 3 minutes before a session with
\* two confirmed bookings: both were delivered their reminder and both have
\* reminderSent = true.
C18_Witness ==
  /\ req[1] = Idle /\ res[1] = "ok"
  /\ \E sid \in DOMAIN sessions :
       /\ StartOf(sessions[sid]) = now + 2 * HOUR + 3 * MINUTE
       /\ confirmedOf(sid) = {1, 2}
       /\ \A b \in confirmedOf(sid) :
            bookings[b].reminderSent = "true" /\ reminded[b] = 1

\* C19: in every state a booking with reminderSent = true has been
\* delivered a reminder, and a send that fails writes nothing and is not
\* followed by the save of the flag, also when runs of the scan overlap.
C19_MarkedOnlyAfterSuccess ==
  [][ /\ \A b \in DOMAIN bookings' :
           bookings'[b].reminderSent = "true" => reminded'[b] >= 1
      /\ \A p \in Procs :
           (/\ req[p].op = "tick" /\ req[p].pc = "booking"
            /\ req'[p] # req[p] /\ reminded' = reminded) =>
             /\ bookings' = bookings
             /\ req'[p] = Idle \/ req'[p].pc # "save"
    ]_vars

\* C19 witness: a scan found two unsent bookings of a session, the send for
\* the first one failed, and the scan is at the second: the first booking
\* has no reminder and its reminderSent is still false.
C19_Witness ==
  /\ req[1].op = "tick" /\ req[1].pc = "booking" /\ req[1].pending = <<2>>
  /\ req[2] = Idle
  /\ {1, 2} \subseteq DOMAIN bookings /\ bookings[1].session = bookings[2].session
  /\ bookings[1].reminderSent = "false" /\ reminded[1] = 0

\* C20: of the sessions that the date-range query of a scan returns, the
\* scan takes up exactly those whose start T satisfies
\* now + 2h - 7min <= T <= now + 2h + 8min, with now read when the scan
\* starts; and a reminder is delivered only for a booking of a session whose
\* start lies in that interval of the scan that delivers it.
C20_WindowMembership ==
  [][ /\ TickQuery(1) =>
           LET due == IF req'[1] = Idle THEN {} ELSE Range(req'[1].due)
           IN \A sid \in DOMAIN sessions :
                LET T == StartOf(sessions[sid])
                    inside == /\ now + 2 * 3600 - 7 * 60 <= T
                              /\ T <= now + 2 * 3600 + 8 * 60
                IN /\ sid \in due => inside
                   /\ (inside /\ coarseFilter(sessions[sid], now)) => sid \in due
      /\ \A b \in DOMAIN bookings :
           reminded'[b] # reminded[b] =>
             /\ req[1].op = "tick"
             /\ req[1].startWindow <= StartOf(sessions[bookings[b].session])
             /\ StartOf(sessions[bookings[b].session]) <= req[1].endWindow
             /\ req[1].endWindow - req[1].startWindow = 15 * 60
    ]_vars

\* C20 witness: a scan that started exactly 1 hour 53 minutes before a
\* session, so that the session's start is the lower end of the interval,
\* has delivered a reminder for its booking.
C20_Witness ==
  /\ req[1].op = "tick" /\ req[1].pc = "save"
  /\ LET b == Head(req[1].pending)
     IN /\ reminded[b] = 1
        /\ req[1].startWindow = StartOf(sessions[bookings[b].session])

\* C21: with the timer firing every 15 minutes, the windows of consecutive
\* scans leave no gap: every session whose start lies after the end of the
\* previous scan's window and not after the end of this scan's window is
\* inside this scan's window, and when the date-range query returns it the
\* scan takes it up.  So every start more than 2h08m after the first firing
\* is inside the window of some scan.
C21_WindowCoverage ==
  [][(now' # now) =>
       /\ now' = now + 15 * 60
       /\ \A sid \in DOMAIN sessions :
            (/\ StartOf(sessions[sid]) > now + 128 * 60
             /\ StartOf(sessions[sid]) <= now' + 128 * 60)
            => /\ fineFilter(sessions[sid], now')
               /\ coarseFilter(sessions[sid], now')
                  => (req'[1] # Idle /\ sid \in Range(req'[1].due))]_vars
\* the 16:00 scan, the fourth of the run, has taken up the session that
\* starts at 18:00 and that no earlier scan had in its window
C21_Witness ==
  /\ req[1].op = "tick" /\ req[1].pc = "session"
  /\ now = CronStart - tz + 4 * CronPeriod
  /\ Head(req[1].due) = 1
  /\ StartOf(sessions[1]) = now + 2 * HOUR

\* C22 as stated: with the timer firing every 15 minutes, a session whose
\* start is inside the window of one scan was not inside the window of the
\* scan before it, so that every start is inside the window of at most one.
C22_WindowUniqueness ==
  [][(now' # now /\ now > CronStart - tz) =>
       \A sid \in DOMAIN sessions :
         fineFilter(sessions[sid], now') => ~fineFilter(sessions[sid], now)]_vars
\* C22, amended: with the timer firing every 15 minutes, every start is
\* inside the windows of at most two scans, and of two only when it is
\* exactly 2h08m after one firing and 1h53m after the next: a session inside
\* the window of a scan was not inside the window two firings earlier, and
\* was inside the window of the previous firing only at that instant.
C22_WindowAtMostTwo ==
  [][(now' # now) =>
       \A sid \in DOMAIN sessions :
         fineFilter(sessions[sid], now')
         => /\ ~fineFilter(sessions[sid], now - 15 * 60)
            /\ fineFilter(sessions[sid], now)
               => /\ StartOf(sessions[sid]) = now + 128 * 60
                  /\ StartOf(sessions[sid]) = now' + 113 * 60]_vars
\* the 16:00 scan has taken up the session that starts at 17:53, the first
\* instant of its window, after the 15:45 scan, for which 17:53 was the last
\* instant, delivered a reminder for a booking of it
C22_Witness ==
  /\ req[1].op = "tick" /\ req[1].pc = "session"
  /\ Head(req[1].due) = 1
  /\ StartOf(sessions[1]) = now + 113 * 60
  /\ \E b \in DOMAIN bookings : bookings[b].session = 1 /\ reminded[b] = 1

\* C23: within one scan a failure on one booking does not keep the scan from
\* the rest: after a step that deals with a booking, whether the send is
\* delivered, fails or throws, the flag cannot be saved or the client
\* document is missing, the scan goes on to write the flag of a delivered
\* booking, to the next booking of the same session, to the next due
\* session when the session has no more bookings, or ends when nothing is
\* left; and a step at a session leaves no other due session out.
C23_IsolationWithinTick ==
  [][(req[1].op = "tick" /\ req'[1] # req[1]) =>
       IF req[1].pc = "session"
       THEN \/ req'[1].op = "tick" /\ req'[1].due = Tail(req[1].due)
            \/ req'[1] = Idle /\ Tail(req[1].due) = <<>>
       ELSE \/ /\ req[1].pc = "booking"
               /\ req'[1] = [req[1] EXCEPT !.pc = "save"]
            \/ /\ Tail(req[1].pending) # <<>>
               /\ req'[1] = [req[1] EXCEPT !.pc = "booking",
                                           !.pending = Tail(req[1].pending)]
            \/ /\ Tail(req[1].pending) = <<>>
               /\ req[1].due # <<>>
               /\ req'[1] = [req[1] EXCEPT !.pc = "session", !.pending = <<>>]
            \/ /\ Tail(req[1].pending) = <<>>
               /\ req[1].due = <<>>
               /\ req'[1] = Idle]_vars

\* C24: a call of sendEmail makes at most three attempts and none after the
\* first that succeeds; it returns success exactly when one of the three
\* answers is a success, having made as many attempts as it took to reach
\* it, and otherwise returns, after the third attempt, a failure with the
\* error of the third attempt.  It always returns a result.
C24_SendWithRetry ==
  [][(req[1].op = "sendEmail") =>
       /\ req[1].attempt \in 1 .. 3
       /\ (req'[1] = Idle) =>
            LET a == req[1].answers
                n == req[1].attempt
            IN /\ \A k \in 1 .. (n - 1) : a[k] # "sent"
               /\ (res'[1] = "sent") <=> (\E k \in 1 .. 3 : a[k] = "sent")
               /\ (res'[1] = "sent") => a[n] = "sent"
               /\ (res'[1] # "sent") => (n = 3 /\ res'[1] = a[3] /\ a[3] \in SendErrors)
               /\ (a[1] # "sent" /\ a[2] # "sent" /\ a[3] = "sent")
                  => (n = 3 /\ res'[1] = "sent")]_vars
\* a call whose first two attempts failed for different reasons is at its
\* third attempt, which will succeed
C24_Witness ==
  /\ req[1].op = "sendEmail" /\ req[1].pc = "attempt"
  /\ req[1].attempt = 3
  /\ req[1].answers = <<"refused", "timeout", "sent">>
  /\ now = T0 + 6
\* C25: after the first failed attempt the call waits 2 seconds and after
\* the second 4 seconds, and the next attempt is not made before the wait is
\* over; after the third failed attempt, and after an attempt that
\* succeeds, the call returns in the same step, with no wait.
C25_Backoff ==
  [][(req[1].op = "sendEmail" /\ req'[1] # req[1]) =>
       IF req[1].pc = "attempt"
       THEN IF req[1].answers[req[1].attempt] # "sent" /\ req[1].attempt < 3
            THEN /\ req'[1].op = "sendEmail" /\ req'[1].pc = "backoff"
                 /\ req'[1].attempt = req[1].attempt
                 /\ req'[1].wakeAt = now + (IF req[1].attempt = 1 THEN 2 ELSE 4)
            ELSE req'[1] = Idle /\ now' = now
       ELSE /\ now >= req[1].wakeAt
            /\ req'[1].pc = "attempt"
            /\ req'[1].attempt = req[1].attempt + 1]_vars
\* the second attempt has failed at the end of the first wait, and the call
\* waits for the second time, until 4 seconds later
C25_Witness ==
  /\ req[1].op = "sendEmail" /\ req[1].pc = "backoff"
  /\ req[1].attempt = 2
  /\ now = T0 + 2
  /\ req[1].wakeAt = T0 + 6

\* C26: an email that cannot be sent changes nothing of a booking or a
\* cancellation.  Whatever happens to the confirmation, the booking that was
\* saved stays saved with its package update applied, nothing else is
\* written, and the request answers with success; whatever happens to the
\* cancellation notification, the request goes on to delete the booking and
\* answers with success.
C26_BestEffortNotifications ==
  [][/\ (req[1].op = "book" /\ req[1].pc \in {"mail", "respond"} /\ req'[1] # req[1])
        => /\ (nextBid - 1) \in DOMAIN bookings
           /\ bookings[nextBid - 1].client = req[1].client
           /\ bookings[nextBid - 1].session = req[1].session
           /\ req[1].isPackageBooking
              => /\ users[req[1].client].activeSessions > 0
                 /\ users[req[1].client].packageExpiry # Null
           /\ bookings' = bookings /\ users' = users /\ sessions' = sessions
           /\ \/ req'[1] = Idle /\ res'[1] = "ok"
              \/ req'[1] = [req[1] EXCEPT !.pc = "respond"]
     /\ (req[1].op = "cancel" /\ req[1].pc = "mail" /\ req'[1] # req[1])
        => /\ req'[1] = [req[1] EXCEPT !.pc = "delete"]
           /\ bookings' = bookings /\ users' = users
     /\ (req[1].op = "cancel" /\ req[1].pc = "delete" /\ req'[1] # req[1])
        => /\ req[1].booking \notin DOMAIN bookings'
           /\ users' = users
           /\ req'[1] = Idle /\ res'[1] = "ok"]_vars
\* the first booking was cancelled and deleted although its notification
\* could not be sent, and the request of the second booking, a package
\* booking that is saved and counted, is about to answer after its
\* confirmation could not be sent
C26_Witness ==
  /\ 1 \notin DOMAIN bookings /\ nextBid = 3
  /\ cancelNotified = {}
  /\ req[1].op = "book" /\ req[1].pc = "respond"
  /\ req[1].isPackageBooking
  /\ 2 \in DOMAIN bookings
\* C29: the deletion of a session reads all its confirmed bookings and,
\* when there are any, runs the notifications before anything is removed; a
\* notification that cannot be sent does not stop it; then every booking that
\* references the session is removed, then the session, and the request
\* answers with success when neither is left.
C29_DeletionCascade ==
  [][/\ (req[1] = Idle /\ req'[1] # Idle /\ req'[1].op = "delete")
        => /\ req'[1].found = {b \in DOMAIN bookings :
                                 /\ bookings[b].session = req'[1].session
                                 /\ bookings[b].status = "confirmed"}
           /\ (req'[1].found # {}) => req'[1].pc = "mail"
           /\ bookings' = bookings /\ sessions' = sessions
     /\ (req[1].op = "delete" /\ req'[1] # req[1])
        => IF req[1].pc = "mail"
           THEN /\ bookings' = bookings /\ sessions' = sessions
                /\ cancelNotified' \subseteq cancelNotified \cup req[1].found
                /\ req'[1] = [req[1] EXCEPT !.pc = "bookings"]
           ELSE IF req[1].pc = "bookings"
           THEN /\ sessions' = sessions
                /\ \A b \in DOMAIN bookings' : bookings'[b].session # req[1].session
                /\ req'[1] = [req[1] EXCEPT !.pc = "session"]
           ELSE /\ req[1].session \notin DOMAIN sessions'
                /\ \A b \in DOMAIN bookings' : bookings'[b].session # req[1].session
                /\ req'[1] = Idle /\ res'[1] = "ok"]_vars
\* a session with two confirmed bookings is being deleted: one of the two
\* notifications could not be sent, both bookings are removed, and the
\* session is removed next
C29_Witness ==
  /\ req[1].op = "delete" /\ req[1].pc = "session"
  /\ req[1].found = {1, 2}
  /\ Cardinality(cancelNotified) = 1
  /\ bookings = <<>>
  /\ req[1].session \in DOMAIN sessions

\* C27: a scan is never blocked: while a scan is in progress, also after an
\* attempt that the mail server never answers, the scan has a step to take
\* that brings it on, so that it reaches its end.
C27_TickNeverBlocked ==
  (req[1].op = "tick") => ENABLED (TickSession(1) \/ TickBooking(1) \/ TickSave(1))
\* C28: a scan whose session query is rejected ends with the error logged,
\* delivers nothing and writes nothing; the scan after it takes up every
\* session in its window that the date query returns, reads every unsent
\* confirmed booking of each, and deals with them one by one, leaving none
\* out.
C28_StoreFailure ==
  [][/\ (res'[1] = "err_logged" /\ res[1] # "err_logged")
        => /\ req[1] = Idle /\ req' = req
           /\ bookings' = bookings /\ reminded' = reminded
           /\ sessions' = sessions /\ users' = users
           /\ cancelNotified' = cancelNotified
     /\ (res[1] = "err_logged" /\ req[1] = Idle /\ req'[1] # Idle)
        => Range(req'[1].due) =
             {sid \in DOMAIN sessions : /\ coarseFilter(sessions[sid], now)
                                        /\ StartOf(sessions[sid]) >= now + 113 * 60
                                        /\ StartOf(sessions[sid]) <= now + 128 * 60}
     /\ (req[1].op = "tick" /\ req[1].pc = "session" /\ req'[1] # req[1])
        => IF unsentOf(Head(req[1].due)) # {}
           THEN /\ req'[1].op = "tick" /\ req'[1].pc = "booking"
                /\ Range(req'[1].pending) = unsentOf(Head(req[1].due))
           ELSE bookings' = bookings
     /\ (req[1].op = "tick" /\ req[1].pc = "booking" /\ req'[1] # req[1])
        => \/ /\ reminded'[Head(req[1].pending)] = reminded[Head(req[1].pending)] + 1
              /\ req'[1] = [req[1] EXCEPT !.pc = "save"]
           \/ /\ reminded' = reminded
              /\ Tail(req[1].pending) # <<>>
              /\ req'[1] = [req[1] EXCEPT !.pending = Tail(req[1].pending)]
           \/ /\ reminded' = reminded
              /\ Tail(req[1].pending) = <<>>
              /\ req'[1] = Idle \/ req'[1].pc = "session"]_vars
\* a session query was rejected while the session was inside the window and
\* its bookings unsent: the scan is over, nothing was delivered and no flag
\* is written
C28_Witness ==
  /\ res[1] = "err_logged" /\ req[1] = Idle
  /\ \E sid \in DOMAIN sessions :
       /\ coarseFilter(sessions[sid], now) /\ fineFilter(sessions[sid], now)
       /\ unsentOf(sid) = BookingIds
  /\ \A b \in BookingIds : reminded[b] = 0

\* C30: no two stored sessions have the same trainer, date and time, also
\* when creations run at the same time; a creation that is rejected as a
\* duplicate, at the lookup or at the save, stores nothing, and a creation
\* that succeeds stores one session.
C30_SessionUniqueness ==
  [][/\ \A s1, s2 \in DOMAIN sessions' :
          (s1 # s2) => ~(/\ sessions'[s1].trainer = sessions'[s2].trainer
                         /\ sessions'[s1].date = sessions'[s2].date
                         /\ sessions'[s1].time = sessions'[s2].time)
     /\ \A p \in Procs :
          /\ (res'[p] = "err_dup" /\ res[p] # "err_dup") => sessions' = sessions
          /\ (req[p].op = "create" /\ req'[p] = Idle /\ res'[p] = "ok")
             => /\ ~\E sid \in DOMAIN sessions :
                       SameSlot(sid, req[p].trainer, req[p].date, req[p].time)
                /\ DOMAIN sessions' = DOMAIN sessions \cup {nextSid}]_vars
\* two creations for the same trainer and slot both passed the lookup; the
\* first has stored its session and answered, and the second is at its save
C30_Witness ==
  /\ res[1] = "ok" /\ req[1] = Idle
  /\ req[2].op = "create" /\ req[2].pc = "save"
  /\ \E sid \in DOMAIN sessions :
       SameSlot(sid, req[2].trainer, req[2].date, req[2].time)

\* C31: the last step of a permitted cancellation removes the booking
\* document: the booking is no longer in the store, every other booking is
\* as it was, and the available spots of the booking's session have grown
\* by exactly the booking's groupSize while those of every other session
\* are unchanged.
C31_HardDelete ==
  [][(req[1].op = "cancel" /\ req[1].pc = "delete" /\ req'[1] # req[1]) =>
       /\ req[1].booking \in DOMAIN bookings
       /\ DOMAIN bookings' = DOMAIN bookings \ {req[1].booking}
       /\ \A o \in DOMAIN bookings' : bookings'[o] = bookings[o]
       /\ sessions' = sessions
       /\ \A sid \in DOMAIN sessions :
            getAvailableSpots(sid, sessions[sid].maxCapacity)' =
              getAvailableSpots(sid, sessions[sid].maxCapacity)
              + (IF sid = bookings[req[1].booking].session
                 THEN bookings[req[1].booking].groupSize ELSE 0)
       /\ req'[1] = Idle /\ res'[1] = "ok"]_vars
\* in the only session ever created, of capacity 3, the first booking, for
\* two people, has been cancelled and is gone; the second, for one person,
\* is as it was, and two spots are available
C31_Witness ==
  /\ req[1] = Idle /\ res[1] = "ok"
  /\ nextSid = 2 /\ nextBid = 3
  /\ DOMAIN sessions = {1} /\ sessions[1].maxCapacity = 3
  /\ DOMAIN bookings = {2}
  /\ bookings[2].groupSize = 1 /\ bookings[2].status = "confirmed"
  /\ getAvailableSpots(1, 3) = 2

\* C32: within a scan the flag of a booking is in the store before the send
\* for the next booking starts: a booking that was delivered a reminder and
\* whose reminderSent is not yet true exists only while the scan is at the
\* save of that very booking, so never while the scan is at the send of
\* another booking, at another session or over.
C32_FlagBeforeNextSend ==
  \A b \in DOMAIN bookings :
    (reminded[b] > 0 /\ bookings[b].reminderSent # "true")
    => (req[1].op = "tick" /\ req[1].pc = "save" /\ Head(req[1].pending) = b)
\* the scan is about to send for the second booking of a session: the first
\* was delivered its reminder and has reminderSent = true in the store, the
\* second has been delivered nothing
C32_Witness ==
  /\ req[1].op = "tick" /\ req[1].pc = "booking"
  /\ req[1].pending = <<2>>
  /\ DOMAIN bookings = {1, 2}
  /\ bookings[1].session = bookings[2].session
  /\ reminded[1] = 1 /\ bookings[1].reminderSent = "true"
  /\ reminded[2] = 0 /\ bookings[2].reminderSent = "false"

\* C33: a send that fails leaves the booking as it was, unsent.  A later
\* scan takes the booking up exactly when its session is inside the window
\* of that scan: a scan that starts sends only for sessions inside its own
\* window, every send of a scan is for a session inside that scan's window,
\* and a scan that takes a session up reads every confirmed booking of it
\* that is not marked, those whose earlier send failed among them.  A
\* booking whose session is inside no later window is sent nothing more.
C33_RecoveryAfterFailure ==
  [][/\ (req[1].op = "tick" /\ req[1].pc = "booking" /\ req'[1] # req[1]
         /\ reminded' = reminded)
        => /\ bookings' = bookings
           /\ bookings[Head(req[1].pending)].reminderSent = "false"
     /\ (req[1].op = "tick" /\ req[1].pc = "booking" /\ reminded' # reminded)
        => LET T == StartOf(sessions[bookings[Head(req[1].pending)].session])
           IN req[1].startWindow <= T /\ T <= req[1].endWindow
     /\ (req[1] = Idle /\ req'[1] # Idle /\ req'[1].op = "tick")
        => /\ req'[1].startWindow = now + 113 * 60
           /\ req'[1].endWindow = now + 128 * 60
           /\ Range(req'[1].due) =
                {sid \in DOMAIN sessions :
                   /\ coarseFilter(sessions[sid], now)
                   /\ StartOf(sessions[sid]) >= now + 113 * 60
                   /\ StartOf(sessions[sid]) <= now + 128 * 60}
     /\ (req[1] = Idle /\ req'[1] = Idle /\ res'[1] = "ok" /\ res[1] # "ok"
         /\ sessions' = sessions)
        => ~\E sid \in DOMAIN sessions :
               /\ coarseFilter(sessions[sid], now)
               /\ StartOf(sessions[sid]) >= now + 113 * 60
               /\ StartOf(sessions[sid]) <= now + 128 * 60
     /\ (req[1].op = "tick" /\ req[1].pc = "session" /\ req'[1] # req[1])
        => \A b \in DOMAIN bookings :
             (/\ bookings[b].session = Head(req[1].due)
              /\ bookings[b].status = "confirmed"
              /\ bookings[b].reminderSent = "false")
             => (req'[1].op = "tick" /\ b \in Range(req'[1].pending))]_vars
\* a later scan, at the last instant at which the session is inside the
\* window, is about to send for the first booking of a session again: the
\* scan that delivered the reminder of the second booking dealt with the
\* first one before it, and that send failed
C33_Witness ==
  /\ req[1].op = "tick" /\ req[1].pc = "booking"
  /\ req[1].pending = <<1>>
  /\ DOMAIN bookings = {1, 2}
  /\ bookings[1].session = bookings[2].session
  /\ reminded[1] = 0 /\ bookings[1].reminderSent = "false"
  /\ reminded[2] = 1 /\ bookings[2].reminderSent = "true"
  /\ req[1].startWindow = StartOf(sessions[bookings[1].session])

\* C34: the date-range query of a scan returns every active session whose
\* start is inside the window of that scan: a scan that starts takes every
\* such session up, and a scan that finds nothing to take up started when
\* no active session was inside its window.
C34_CoarseFilterKeepsDue ==
  [][/\ (req[1] = Idle /\ req'[1] # Idle /\ req'[1].op = "tick")
        => \A sid \in DOMAIN sessions :
             (/\ sessions[sid].isActive
              /\ StartOf(sessions[sid]) >= now + 113 * 60
              /\ StartOf(sessions[sid]) <= now + 128 * 60)
             => sid \in Range(req'[1].due)
     /\ (req[1] = Idle /\ req'[1] = Idle /\ res'[1] = "ok" /\ res[1] # "ok"
         /\ sessions' = sessions)
        => ~\E sid \in DOMAIN sessions :
               /\ sessions[sid].isActive
               /\ StartOf(sessions[sid]) >= now + 113 * 60
               /\ StartOf(sessions[sid]) <= now + 128 * 60]_vars

\* C35: a package booking never moves the client's packageExpiry to an
\* earlier instant: where an expiry was set, the expiry after the booking's
\* update is set and is not before it.
C35_ExpiryNeverShortened ==
  [][(req[1].op = "book" /\ req[1].pc = "package" /\ req'[1] # req[1]) =>
       \A c \in Clients :
         users[c].packageExpiry # Null =>
           /\ users'[c].packageExpiry # Null
           /\ users'[c].packageExpiry[1] >= users[c].packageExpiry[1]]_vars

\* a package booking made after an add-package, later than it, has moved
\* the expiry
C35_Witness ==
  /\ req[1].op = "book" /\ req[1].pc = "mail" /\ req[1].isPackageBooking
  /\ now > T0
  /\ users[req[1].client].activeSessions = AddPackageSessions + 1
  /\ users[req[1].client].packageExpiry = <<now + DefaultPackageDuration * DAY>>

\* C36: the counter is decremented once for a package booking however many
\* cancellations of it run together: a cancellation decrements only for a
\* booking that is still stored and for which no other cancellation in
\* progress has already decremented.
C36_DecrementedOnce ==
  [][\A p \in Procs :
       (req[p].op = "cancel" /\ req[p].pc = "package" /\ req'[p] # req[p]) =>
         /\ req[p].booking \in DOMAIN bookings
         /\ \A q \in Procs \ {p} :
              ~(/\ req[q].op = "cancel" /\ req[q].booking = req[p].booking
                /\ req[q].pc \in {"mail", "delete"})]_vars

\* C37: a step that clears the sent marker of a booking is a reset of all
\* markers: it removes the marker of every booking that carries it and
\* changes no other field and no other document; and a scan that takes a
\* session up takes with it every confirmed booking of the session whose
\* marker was removed, to send its reminder again.
C37_ResetAndRedispatch ==
  [][/\ (\E b \in DOMAIN bookings \cap DOMAIN bookings' :
           bookings[b].reminderSent = "true" /\ bookings'[b].reminderSent # "true")
        => /\ bookings' = [b \in DOMAIN bookings |->
                             IF bookings[b].reminderSent = "true"
                             THEN [bookings[b] EXCEPT !.reminderSent = "unset"]
                             ELSE bookings[b]]
           /\ UNCHANGED <<sessions, users, reminded, cancelNotified, req>>
     /\ (req[1].op = "tick" /\ req[1].pc = "session" /\ req'[1] # req[1])
        => \A b \in DOMAIN bookings :
             (/\ bookings[b].session = Head(req[1].due)
              /\ bookings[b].status = "confirmed"
              /\ bookings[b].reminderSent = "unset")
             => (req'[1].op = "tick" /\ b \in Range(req'[1].pending))]_vars

\* the reminder of a booking was delivered, its marker was reset, and a
\* later scan with the session inside its window has delivered it again
C37_Witness ==
  /\ req[1].op = "tick" /\ req[1].pc = "save"
  /\ Head(req[1].pending) \in DOMAIN bookings
  /\ reminded[Head(req[1].pending)] = 2
  /\ bookings[Head(req[1].pending)].reminderSent = "unset"
  /\ \E o \in DOMAIN bookings : bookings[o].reminderSent = "false"

\* C38: a booking stored without a cancellation deadline is never accepted
\* for cancellation from a client, its owner included, and is accepted from
\* the admin: of the cancellation requests that can arrive for it, those of
\* the admin pass the checks and those of a client do not.
C38_MissingDeadline ==
  \A p \in Procs : \A b \in DOMAIN bookings :
    (req[p] = Idle /\ bookings[b].cancellationDeadline = Null) =>
      /\ ENABLED (CancelFind(p, Admin, b) /\ req'[p] # Idle)
      /\ \A r \in Clients : ~ENABLED (CancelFind(p, r, b) /\ req'[p] # Idle)

\* a booking request that ended well stored a booking without a deadline,
\* its session having been deleted, and the admin's cancellation of it is
\* about to delete it
C38_Witness ==
  \E p \in Procs : \E q \in Procs \ {p} :
    /\ req[p].op = "cancel" /\ req[p].pc = "delete" /\ req[p].requester = Admin
    /\ req[p].booking \in DOMAIN bookings
    /\ bookings[req[p].booking].cancellationDeadline = Null
    /\ bookings[req[p].booking].session \notin DOMAIN sessions
    /\ req[q] = Idle /\ res[q] = "ok"

\* C39: no step of a session deletion changes a user document, whatever
\* bookings it removes, and the package counter of a client goes down only
\* in the decrement of a cancellation of a booking.
C39_DeletionKeepsCounters ==
  [][/\ (req[1].op = "delete" \/ req'[1].op = "delete") => users' = users
     /\ (\E c \in Clients : users'[c].activeSessions < users[c].activeSessions)
        => (req[1].op = "cancel" /\ req[1].pc = "package")]_vars

\* the only booking ever made was a package booking, it was removed with
\* its session, and its client's counter still counts it
C39_Witness ==
  /\ req[1] = Idle /\ res[1] = "ok"
  /\ nextSid = 2 /\ sessions = <<>>
  /\ nextBid = 2 /\ bookings = <<>>
  /\ users["c1"].activeSessions = 1 /\ users["c1"].packageExpiry # Null

\* C40: every stored booking refers to a stored session, however a booking
\* request and a deletion of its session interleave.
C40_NoOrphanedBookings ==
  \A b \in DOMAIN bookings : bookings[b].session \in DOMAIN sessions

====
